---------------------------- MODULE Spec2Model ----------------------------
(***************************************************************************)
(* Rolling-window Z-score anomaly detector of                              *)
(* apps/data-processing/src/anomaly_detector.py (class AnomalyDetector).   *)
(*                                                                         *)
(* Numbers.  Python floats are modelled by exact real arithmetic (no       *)
(* rounding).  A rational is a pair <<n, d>> in lowest terms with d > 0.   *)
(* A float computed by the detector is a record                            *)
(*      [p |-> rational, s |-> -1 | 0 | 1, m |-> rational, e |-> -1|0|1]   *)
(* that denotes (p + s * sqrt(m)) * 10^(10 * e): sample standard           *)
(* deviations are square roots of rationals, and the zero-variance         *)
(* fallback 1e-10 is <<1,1>> with e = -1.  Timestamps are whole hours.     *)
(***************************************************************************)
EXTENDS Integers, Sequences, FiniteSets, TLC

VARIABLES
    window_size_hours,  \* self.window_size_hours
    z_threshold,        \* self.z_threshold (a rational)
    timestamp_data,     \* self.timestamp_data, head first
    volume_data,        \* self.volume_data
    sentiment_data,     \* self.sentiment_data
    ops,                \* number of window-changing calls so far
    raisedEver,         \* some public call has raised to its caller
    last,               \* the latest public call: arguments and outcome
    threads,            \* per thread: the call it is in and its position
    replica,            \* a second detector given the same calls
    database            \* the rows committed to each table of the database

vars == <<window_size_hours, z_threshold, timestamp_data, volume_data,
          sentiment_data, ops, raisedEver, last, threads, replica,
          database>>

---------------------------------------------------------------------------
(* Bounds of the exploration *)

MaxOps == 2         \* Spec, SpecArgs: window-changing calls per behaviour
MaxTimedOps == 6    \* SpecTime, SpecReset: insertions per behaviour
MaxValue == 2       \* Spec: the volumes fed are 0 and MaxValue
FarTime == 5        \* Spec: timestamps are 0 and FarTime (hours)
MaxTime == 2        \* SpecArgs, SpecTime: timestamps are 0..MaxTime (hours)
MaxThreadCalls == 2 \* SpecThreads: add_data_point calls per behaviour
MaxZ == 28          \* SpecSeverity: z-scores are -MaxZ/4 .. MaxZ/4
MaxBaseline == 96   \* SpecSpike: the longest run of regular baseline values
MaxOutlier == 10    \* SpecSpike: the value that may lead a baseline
MaxTextLen == 3     \* SpecServer: characters per text
MaxBatch == 2       \* SpecServer: texts per batch request
MaxRecords == 3     \* SpecStore: records per batch
MaxSaves == 2       \* SpecStore: batch calls per behaviour
MaxWords == 2       \* SpecSentiment: pieces per text
MaxCalls == 11      \* SpecCalls: consecutive detect_anomalies calls
MaxRuns == 10       \* SpecScheduler: runs that reach the detector

---------------------------------------------------------------------------
(* Exact rational arithmetic *)

RECURSIVE GCD(_, _)
GCD(a, b) == IF b = 0 THEN a ELSE GCD(b, a % b)

AbsInt(x) == IF x < 0 THEN -x ELSE x

SgnInt(x) == IF x < 0 THEN -1 ELSE IF x = 0 THEN 0 ELSE 1

Rat(n, d) ==
    LET g == GCD(AbsInt(n), AbsInt(d))
        sg == IF d < 0 THEN -1 ELSE 1
    IN  <<(sg * n) \div g, (sg * d) \div g>>

RAdd(a, b) == Rat(a[1] * b[2] + b[1] * a[2], a[2] * b[2])
RSub(a, b) == Rat(a[1] * b[2] - b[1] * a[2], a[2] * b[2])
RMul(a, b) == Rat(a[1] * b[1], a[2] * b[2])
RDiv(a, b) == Rat(a[1] * b[2], a[2] * b[1])
RLeq(a, b) == a[1] * b[2] <= b[1] * a[2]
RLt(a, b) == a[1] * b[2] < b[1] * a[2]
RAbs(a) == <<AbsInt(a[1]), a[2]>>
RZero == <<0, 1>>
ROne == <<1, 1>>

\* the least r with r * r >= k, searched upwards from r
RECURSIVE RootFrom(_, _)
RootFrom(k, r) == IF r * r >= k THEN r ELSE RootFrom(k, r + 1)

ISqrt(k) == RootFrom(k, 0)
IsSquare(k) == ISqrt(k) * ISqrt(k) = k

---------------------------------------------------------------------------
(* Floats as exact reals (p + s*sqrt(m)) * 10^(10*e) *)

RealOfRat(q) == [p |-> q, s |-> 0, m |-> RZero, e |-> 0]

\* float('nan'): every comparison with it is false
NaN == [nan |-> TRUE]

Zero == RealOfRat(RZero)
One == RealOfRat(ROne)

\* math.sqrt of a non-negative rational
Sqrt(q) ==
    IF IsSquare(q[1]) /\ IsSquare(q[2])
    THEN RealOfRat(<<ISqrt(q[1]), ISqrt(q[2])>>)
    ELSE [p |-> RZero, s |-> 1, m |-> q, e |-> 0]

\* a magnitude that keeps the sign
AbsReal_Signed(x) == x

\* abs() of a z-score (a rational, a signed root, or a rational * 1e10)
AbsReal(x) ==
    IF x = NaN THEN NaN
    ELSE [p |-> RAbs(x.p), s |-> AbsInt(x.s), m |-> x.m, e |-> x.e]

\* x <= c for a z-score x (or its magnitude) and a rational c >= 0.  With
\* e = 1 the value is p * 10^10: a positive p with 32-bit numerator and
\* denominator exceeds every such c.
LeqRat(x, c) ==
    IF x = NaN THEN FALSE
    ELSE CASE x.e = 1 -> x.p[1] <= 0
           [] x.e = 0 /\ x.s = 0 -> RLeq(x.p, c)
           [] x.e = 0 /\ x.s = 1 -> RLeq(x.m, RMul(c, c))
           [] x.e = 0 /\ x.s = -1 -> TRUE

\* x > 0 for a severity value
IsPositive(x) ==
    CASE x.s = 0 -> x.p[1] > 0
      [] x.s = 1 -> \/ x.p[1] >= 0
                    \/ RLt(RMul(x.p, x.p), x.m)

---------------------------------------------------------------------------
(* Program constants *)

DEFAULT_WINDOW_SIZE_HOURS == 24
\* a minimum that is one sample lower
MIN_DATA_POINTS_Nine == 10 - 1
MIN_DATA_POINTS == 10
SamplesPerHour == 4

DEFAULT_Z_THRESHOLD == <<5, 2>>        \* 2.5

\* the zero-variance fallback 1e-10
Epsilon == [p |-> ROne, s |-> 0, m |-> RZero, e |-> -1]

---------------------------------------------------------------------------
(* Caller-supplied values.  A volume or sentiment argument is either a     *)
(* number, [num |-> n], or a value float() rejects, Malformed.  An omitted *)
(* constructor argument is NoneArg.                                        *)

Num(n) == [num |-> n]
Malformed == [str |-> "abc"]
NoneArg == [none |-> TRUE]
IsNumber(v) == DOMAIN v = {"num"}

Values == {0, MaxValue}

---------------------------------------------------------------------------
(* collections.deque(maxlen=...) *)

\* deque.append on a bounded deque: a full deque drops its head
\* an append that never discards the oldest entry
DequeAppend_Unbounded(dq, x, maxlen) == Append(dq, x)
DequeAppend(dq, x, maxlen) ==
    IF Len(dq) >= maxlen THEN Append(Tail(dq), x) ELSE Append(dq, x)

\* deque.popleft
PopLeft(dq) == Tail(dq)

Capacity == window_size_hours * SamplesPerHour

\* An entry of a series: the stored value x and the arguments of the
\* add_data_point call that stored it (a history tag, not program state).
Entry(x, timestamp, volume, sentiment_score) ==
    [x |-> x, call |-> <<timestamp, volume, sentiment_score>>]

ValuesOf(dq) == [i \in 1..Len(dq) |-> dq[i].x]

---------------------------------------------------------------------------
(* AnomalyDetector._clean_old_data *)

\* an eviction that tests the head once instead of looping
CleanLoop_Once(ts, vol, sent, cutoff_time) ==
    IF Len(ts) > 0 /\ ts[1].x < cutoff_time
    THEN [ts |-> PopLeft(ts),
          vol |-> IF vol # <<>> THEN PopLeft(vol) ELSE vol,
          sent |-> IF sent # <<>> THEN PopLeft(sent) ELSE sent]
    ELSE [ts |-> ts, vol |-> vol, sent |-> sent]

\* an eviction loop that leaves the volume series alone
RECURSIVE CleanLoop_KeepsVolume(_, _, _, _)
CleanLoop_KeepsVolume(ts, vol, sent, cutoff_time) ==
    IF Len(ts) > 0 /\ ts[1].x < cutoff_time
    THEN CleanLoop_KeepsVolume(PopLeft(ts), vol,
                               IF sent # <<>> THEN PopLeft(sent) ELSE sent,
                               cutoff_time)
    ELSE [ts |-> ts, vol |-> vol, sent |-> sent]

\* an eviction loop that also evicts a head exactly at the cutoff
RECURSIVE CleanLoop_Inclusive(_, _, _, _)
CleanLoop_Inclusive(ts, vol, sent, cutoff_time) ==
    IF Len(ts) > 0 /\ ts[1].x <= cutoff_time
    THEN CleanLoop_Inclusive(PopLeft(ts),
                             IF vol # <<>> THEN PopLeft(vol) ELSE vol,
                             IF sent # <<>> THEN PopLeft(sent) ELSE sent,
                             cutoff_time)
    ELSE [ts |-> ts, vol |-> vol, sent |-> sent]

\* The three series after the eviction loop for cutoff_time.
RECURSIVE CleanLoop(_, _, _, _)
CleanLoop(ts, vol, sent, cutoff_time) ==
    IF Len(ts) > 0 /\ ts[1].x < cutoff_time
    THEN CleanLoop(PopLeft(ts),
                   IF vol # <<>> THEN PopLeft(vol) ELSE vol,
                   IF sent # <<>> THEN PopLeft(sent) ELSE sent,
                   cutoff_time)
    ELSE [ts |-> ts, vol |-> vol, sent |-> sent]

CleanOldData(ts, vol, sent, current_timestamp) ==
    CleanLoop(ts, vol, sent, current_timestamp - window_size_hours)

---------------------------------------------------------------------------
(* AnomalyDetector.add_data_point *)

\* an add_data_point that appends without evicting expired samples first
AddDataPoint_AppendOnly(ts, vol, sent, volume, sentiment_score, timestamp) ==
    [ts |-> DequeAppend(ts, Entry(timestamp, timestamp, volume,
                                  sentiment_score), Capacity),
     vol |-> DequeAppend(vol, Entry(volume.num, timestamp, volume,
                                    sentiment_score), Capacity),
     sent |-> DequeAppend(sent, Entry(sentiment_score.num, timestamp, volume,
                                      sentiment_score), Capacity),
     raised |-> FALSE]

\* The outcome of add_data_point(volume, sentiment_score, timestamp) on the
\* series ts, vol, sent: the series afterwards and whether the call raised
\* (float() of a malformed argument, after the appends before it).
AddDataPoint(ts, vol, sent, volume, sentiment_score, timestamp) ==
    LET cleaned == CleanOldData(ts, vol, sent, timestamp)
        ts1 == DequeAppend(cleaned.ts,
                           Entry(timestamp, timestamp, volume,
                                 sentiment_score),
                           Capacity)
    IN  IF ~IsNumber(volume)
        THEN [ts |-> ts1, vol |-> cleaned.vol, sent |-> cleaned.sent,
              raised |-> TRUE]
        ELSE LET vol1 == DequeAppend(cleaned.vol,
                                     Entry(volume.num, timestamp, volume,
                                           sentiment_score),
                                     Capacity)
             IN  IF ~IsNumber(sentiment_score)
                 THEN [ts |-> ts1, vol |-> vol1, sent |-> cleaned.sent,
                       raised |-> TRUE]
                 ELSE [ts |-> ts1, vol |-> vol1,
                       sent |-> DequeAppend(cleaned.sent,
                                            Entry(sentiment_score.num,
                                                  timestamp, volume,
                                                  sentiment_score),
                                            Capacity),
                       raised |-> FALSE]

---------------------------------------------------------------------------
(* AnomalyDetector._calculate_statistics, _calculate_z_score *)

\* the sum of xs[lo..hi], by halves as numpy's pairwise summation adds
\* (the sums are exact, so the grouping does not change them)
RECURSIVE SumSlice(_, _, _)
SumSlice(xs, lo, hi) ==
    IF lo > hi THEN 0
    ELSE IF lo = hi THEN xs[lo]
    ELSE SumSlice(xs, lo, (lo + hi) \div 2)
         + SumSlice(xs, ((lo + hi) \div 2) + 1, hi)

SumSeq(xs) == SumSlice(xs, 1, Len(xs))

\* np.mean of a non-empty sequence of numbers
Mean(xs) == Rat(SumSeq(xs), Len(xs))

SumSquares(xs) == SumSeq([i \in 1..Len(xs) |-> xs[i] * xs[i]])

\* The sum of the squared deviations from the mean, divided by n - 1.  With
\* S the sum and Q the sum of squares of the n values, the squared
\* deviations from S/n sum to (n*Q - S*S)/n.
SampleVariance(xs) ==
    LET n == Len(xs)
        S == SumSeq(xs)
        Q == SumSquares(xs)
    IN  Rat(n * Q - S * S, n * (n - 1))

\* np.std(xs, ddof=1) for Len(xs) >= 2
SampleStd(xs) == Sqrt(SampleVariance(xs))

\* statistics without the fallback for a zero standard deviation
CalculateStatistics_NoFallback(data_points) ==
    IF Len(data_points) < MIN_DATA_POINTS
    THEN [raised |-> TRUE]
    ELSE [raised |-> FALSE,
          mean |-> Mean(data_points),
          std |-> SampleStd(data_points)]

\* [raised |-> TRUE] is the ValueError of too few data points
CalculateStatistics(data_points) ==
    IF Len(data_points) < MIN_DATA_POINTS
    THEN [raised |-> TRUE]
    ELSE LET std == SampleStd(data_points)
         IN  [raised |-> FALSE,
              mean |-> Mean(data_points),
              std |-> IF std = Zero THEN Epsilon ELSE std]

\* (value - mean) / std for a number value, a rational mean and a std that
\* is a positive rational, the root of a positive rational, or Epsilon
CalculateZScore(value, mean, std) ==
    LET a == RSub(<<value, 1>>, mean)
    IN  IF a = RZero THEN Zero
        ELSE CASE std.e = -1 ->
                    [p |-> RDiv(a, std.p), s |-> 0, m |-> RZero, e |-> 1]
               [] std.e = 0 /\ std.s = 0 -> RealOfRat(RDiv(a, std.p))
               [] std.e = 0 /\ std.s = 1 ->
                    [p |-> RZero, s |-> SgnInt(a[1]),
                     m |-> RDiv(RMul(a, a), std.m), e |-> 0]

---------------------------------------------------------------------------
(* AnomalyDetector._calculate_severity_score *)

\* a ramp of half the slope: (abs_z - t) / (2 * t)
Ramp_HalfSlope(abs_z, t) ==
    CASE abs_z.e = 0 /\ abs_z.s = 0 ->
            RealOfRat(RDiv(RSub(abs_z.p, t), RMul(t, <<2, 1>>)))
      [] abs_z.e = 0 /\ abs_z.s = 1 ->
            [p |-> <<-1, 2>>, s |-> 1,
             m |-> RDiv(abs_z.m, RMul(RMul(t, t), <<4, 1>>)), e |-> 0]

\* (abs_z - t) / t for a magnitude abs_z that is a rational or a root
Ramp(abs_z, t) ==
    CASE abs_z.e = 0 /\ abs_z.s = 0 -> RealOfRat(RDiv(RSub(abs_z.p, t), t))
      [] abs_z.e = 0 /\ abs_z.s = 1 ->
            [p |-> <<-1, 1>>, s |-> 1, m |-> RDiv(abs_z.m, RMul(t, t)),
             e |-> 0]

\* a severity that compares the signed z-score with the breakpoints
SeverityScore_Signed(z_score, threshold) ==
    IF LeqRat(z_score, threshold) THEN Zero
    ELSE IF LeqRat(z_score, RMul(threshold, <<2, 1>>))
    THEN Ramp(z_score, threshold)
    ELSE One

SeverityScore(z_score, threshold) ==
    LET abs_z == AbsReal(z_score)
    IN  IF LeqRat(abs_z, threshold) THEN Zero
        ELSE IF LeqRat(abs_z, RMul(threshold, <<2, 1>>))
        THEN Ramp(abs_z, threshold)
        ELSE One

CalculateSeverityScore(z_score) == SeverityScore(z_score, z_threshold)

---------------------------------------------------------------------------
(* AnomalyDetector.detect_volume_anomaly, detect_sentiment_anomaly *)

AnomalyResult(is_anomaly, severity_score, metric_name, current_value, baseline_mean, baseline_std, z_score, timestamp) ==
    [is_anomaly |-> is_anomaly, severity_score |-> severity_score,
     metric_name |-> metric_name, current_value |-> current_value,
     baseline_mean |-> baseline_mean, baseline_std |-> baseline_std,
     z_score |-> z_score, timestamp |-> timestamp]

\* the record of the insufficient-data branch and of the except branch
ZeroedResult(metric_name, current_value, timestamp) ==
    AnomalyResult(FALSE, Zero, metric_name, current_value, Zero, Zero, Zero,
                  timestamp)

\* abs(z_score) >= self.z_threshold
ExceedsThreshold_Inclusive(z_score) ==
    \/ ~LeqRat(AbsReal(z_score), z_threshold)
    \/ AbsReal(z_score) = RealOfRat(z_threshold)

\* abs(z_score) > self.z_threshold
ExceedsThreshold(z_score) ==
    z_score # NaN /\ ~LeqRat(AbsReal(z_score), z_threshold)

\* severity and is_anomaly as the computed branch derives them from the
\* z-score
ScoreOfZ(z_score) ==
    [z_score |-> z_score,
     severity |-> CalculateSeverityScore(z_score),
     is_anomaly |-> ExceedsThreshold(z_score)]

\* z_score, severity and is_anomaly as the computed branch derives them
\* from the probed number and the baseline
Score(value, mean, std) == ScoreOfZ(CalculateZScore(value, mean, std))

\* the same for a probe that is a number or float('nan'): arithmetic on
\* nan gives nan
ScoreProbe(current, mean, std) ==
    IF current = NaN THEN ScoreOfZ(NaN)
    ELSE Score(current.num, mean, std)

\* a volume detection that treats the window as expired when its timestamp
\* lies more than window_size_hours after time 0
DetectVolumeAnomaly_Expiring(vol, current_volume, timestamp) ==
    LET baseline_values == IF timestamp > window_size_hours THEN <<>>
                           ELSE ValuesOf(vol)
    IN  IF Len(baseline_values) < MIN_DATA_POINTS
        THEN ZeroedResult("volume", current_volume, timestamp)
        ELSE LET stats == CalculateStatistics(baseline_values)
             IN  IF \/ stats.raised
                    \/ ~IsNumber(current_volume) /\ current_volume # NaN
                 THEN ZeroedResult("volume", current_volume, timestamp)
                 ELSE LET sc == ScoreProbe(current_volume, stats.mean,
                                           stats.std)
                      IN  AnomalyResult(sc.is_anomaly, sc.severity,
                                        "volume", current_volume,
                                        RealOfRat(stats.mean), stats.std,
                                        sc.z_score, timestamp)

\* detect_volume_anomaly on the volume series vol.  A malformed
\* current_volume makes _calculate_z_score raise TypeError inside the try.
DetectVolumeAnomaly(vol, current_volume, timestamp) ==
    LET baseline_values == ValuesOf(vol)
    IN  IF Len(baseline_values) < MIN_DATA_POINTS
        THEN ZeroedResult("volume", current_volume, timestamp)
        ELSE LET stats == CalculateStatistics(baseline_values)
             IN  IF \/ stats.raised
                    \/ ~IsNumber(current_volume) /\ current_volume # NaN
                 THEN ZeroedResult("volume", current_volume, timestamp)
                 ELSE LET sc == ScoreProbe(current_volume, stats.mean,
                                           stats.std)
                      IN  AnomalyResult(sc.is_anomaly, sc.severity,
                                        "volume", current_volume,
                                        RealOfRat(stats.mean), stats.std,
                                        sc.z_score, timestamp)

DetectSentimentAnomaly(sent, current_sentiment, timestamp) ==
    LET baseline_values == ValuesOf(sent)
    IN  IF Len(baseline_values) < MIN_DATA_POINTS
        THEN ZeroedResult("sentiment", current_sentiment, timestamp)
        ELSE LET stats == CalculateStatistics(baseline_values)
             IN  IF \/ stats.raised
                    \/ ~IsNumber(current_sentiment)
                       /\ current_sentiment # NaN
                 THEN ZeroedResult("sentiment", current_sentiment, timestamp)
                 ELSE LET sc == ScoreProbe(current_sentiment, stats.mean,
                                           stats.std)
                      IN  AnomalyResult(sc.is_anomaly, sc.severity,
                                        "sentiment", current_sentiment,
                                        RealOfRat(stats.mean), stats.std,
                                        sc.z_score, timestamp)

---------------------------------------------------------------------------
(* AnomalyDetector.detect_anomalies *)

\* a detect_anomalies that returns the sentiment result first
DetectAnomaliesOutcome_SentimentFirst(ts, vol, sent, volume, sentiment_score, timestamp) ==
    LET added == AddDataPoint(ts, vol, sent, volume, sentiment_score,
                              timestamp)
    IN  IF added.raised
        THEN [ts |-> added.ts, vol |-> added.vol, sent |-> added.sent,
              raised |-> TRUE, result |-> <<>>]
        ELSE [ts |-> added.ts, vol |-> added.vol, sent |-> added.sent,
              raised |-> FALSE,
              result |-> <<DetectSentimentAnomaly(added.sent, sentiment_score,
                                                  timestamp),
                           DetectVolumeAnomaly(added.vol, volume,
                                               timestamp)>>]

\* a detect_anomalies that evaluates the candidate without inserting it
DetectAnomaliesOutcome_NoInsert(ts, vol, sent, volume, sentiment_score, timestamp) ==
    [ts |-> ts, vol |-> vol, sent |-> sent, raised |-> FALSE,
     result |-> <<DetectVolumeAnomaly(vol, volume, timestamp),
                  DetectSentimentAnomaly(sent, sentiment_score, timestamp)>>]

\* a detect_anomalies that evaluates both detections on the series as they
\* were before the insertion
DetectAnomaliesOutcome_EvalFirst(ts, vol, sent, volume, sentiment_score, timestamp) ==
    LET added == AddDataPoint(ts, vol, sent, volume, sentiment_score,
                              timestamp)
    IN  IF added.raised
        THEN [ts |-> added.ts, vol |-> added.vol, sent |-> added.sent,
              raised |-> TRUE, result |-> <<>>]
        ELSE [ts |-> added.ts, vol |-> added.vol, sent |-> added.sent,
              raised |-> FALSE,
              result |-> <<DetectVolumeAnomaly(vol, volume, timestamp),
                           DetectSentimentAnomaly(sent, sentiment_score,
                                                  timestamp)>>]

\* The series after the call, whether it raised (add_data_point's
\* exception is not caught), and the returned list.
DetectAnomaliesOutcome(ts, vol, sent, volume, sentiment_score, timestamp) ==
    LET added == AddDataPoint(ts, vol, sent, volume, sentiment_score,
                              timestamp)
    IN  IF added.raised
        THEN [ts |-> added.ts, vol |-> added.vol, sent |-> added.sent,
              raised |-> TRUE, result |-> <<>>]
        ELSE [ts |-> added.ts, vol |-> added.vol, sent |-> added.sent,
              raised |-> FALSE,
              result |-> <<DetectVolumeAnomaly(added.vol, volume, timestamp),
                           DetectSentimentAnomaly(added.sent, sentiment_score,
                                                  timestamp)>>]

---------------------------------------------------------------------------
(* AnomalyDetector.get_window_stats *)

RECURSIVE MinSeq(_)
MinSeq(xs) ==
    IF Len(xs) = 1 THEN Head(xs)
    ELSE LET r == MinSeq(Tail(xs)) IN IF Head(xs) < r THEN Head(xs) ELSE r

RECURSIVE MaxSeq(_)
MaxSeq(xs) ==
    IF Len(xs) = 1 THEN Head(xs)
    ELSE LET r == MaxSeq(Tail(xs)) IN IF Head(xs) > r THEN Head(xs) ELSE r

\* A stats dict: empty (no key) or the five keys.  np.std(ddof=1) of a
\* single value is nan.
MetricStats(xs) ==
    IF xs = <<>> THEN {}
    ELSE {[count |-> Len(xs),
           mean |-> RealOfRat(Mean(xs)),
           std |-> IF Len(xs) = 1 THEN NaN ELSE SampleStd(xs),
           min |-> MinSeq(xs),
           max |-> MaxSeq(xs)]}

GetWindowStats(ts, vol, sent) ==
    [window_size_hours |-> window_size_hours,
     z_threshold |-> z_threshold,
     data_points_count |-> Len(ts),
     volume_stats |-> MetricStats(ValuesOf(vol)),
     sentiment_stats |-> MetricStats(ValuesOf(sent))]

---------------------------------------------------------------------------
(* AnomalyDetector.__init__ *)

\* `arg or default`: None and zero (0 for hours, 0.0 for a threshold) are
\* falsy
OrDefault(arg, zero, default) ==
    IF arg = NoneArg THEN default
    ELSE IF arg.num = zero THEN default
    ELSE arg.num

\* the constructor call AnomalyDetector(window_size_hours=w, z_threshold=z)
ConstructorCall(w, z) ==
    [op |-> "__init__", raised |-> FALSE, window_size_hours |-> w,
     z_threshold |-> z]

\* the threads that share the detector; none is inside a call
Threads == {1, 2}
Idle == [pc |-> "idle", returned |-> <<>>]

\* the database before anything is saved: both tables empty
NoRows == [news_insights |-> <<>>, asset_trends |-> <<>>]

\* the second detector, constructed with the same arguments
NoReplica(w, z) ==
    [timestamp_data |-> <<>>, volume_data |-> <<>>, sentiment_data |-> <<>>,
     last |-> ConstructorCall(w, z), explicit |-> TRUE, skewed |-> FALSE]

Construct(w, z) ==
    /\ window_size_hours = OrDefault(w, 0, DEFAULT_WINDOW_SIZE_HOURS)
    /\ z_threshold = OrDefault(z, RZero, DEFAULT_Z_THRESHOLD)
    /\ timestamp_data = <<>>
    /\ volume_data = <<>>
    /\ sentiment_data = <<>>
    /\ ops = 0
    /\ raisedEver = FALSE
    /\ last = ConstructorCall(w, z)
    /\ threads = [i \in Threads |-> Idle]
    /\ replica = NoReplica(w, z)
    /\ database = NoRows

\* AnomalyDetector(window_size_hours=4, z_threshold=1.75)
Init == Construct(Num(4), Num(<<7, 4>>))

\* AnomalyDetector() and AnomalyDetector(window_size_hours=1, z_threshold=2.5)
ConstructorArgs == {<<NoneArg, NoneArg>>, <<Num(1), Num(<<5, 2>>)>>}

InitArgs == \E a \in ConstructorArgs : Construct(a[1], a[2])

---------------------------------------------------------------------------
(* Public calls *)

config == <<window_size_hours, z_threshold>>

add_data_point(volume, sentiment_score, timestamp) ==
    /\ LET r == AddDataPoint(timestamp_data, volume_data, sentiment_data,
                             volume, sentiment_score, timestamp)
       IN  /\ timestamp_data' = r.ts
           /\ volume_data' = r.vol
           /\ sentiment_data' = r.sent
           /\ raisedEver' = (raisedEver \/ r.raised)
           /\ last' = [op |-> "add_data_point", volume |-> volume,
                       sentiment_score |-> sentiment_score,
                       timestamp |-> timestamp, raised |-> r.raised,
                       count_before |-> Len(timestamp_data), calls |-> 1]
    /\ UNCHANGED config
    /\ UNCHANGED <<threads, replica, database>>

detect_anomalies(volume, sentiment_score, timestamp) ==
    /\ LET r == DetectAnomaliesOutcome(timestamp_data, volume_data,
                                       sentiment_data, volume,
                                       sentiment_score, timestamp)
       IN  /\ timestamp_data' = r.ts
           /\ volume_data' = r.vol
           /\ sentiment_data' = r.sent
           /\ raisedEver' = (raisedEver \/ r.raised)
           /\ last' = [op |-> "detect_anomalies", volume |-> volume,
                       sentiment_score |-> sentiment_score,
                       timestamp |-> timestamp, raised |-> r.raised,
                       count_before |-> Len(timestamp_data),
                       result |-> r.result]
    /\ UNCHANGED config
    /\ UNCHANGED <<threads, replica, database>>

\* a volume detection that consumes the oldest volume it reads
detect_volume_anomaly_Consuming(current_volume, timestamp) ==
    /\ last' = [op |-> "detect_volume_anomaly",
                current_value |-> current_volume, timestamp |-> timestamp,
                raised |-> FALSE,
                result |-> DetectVolumeAnomaly(volume_data, current_volume,
                                               timestamp)]
    /\ volume_data' = IF volume_data = <<>> THEN volume_data
                      ELSE PopLeft(volume_data)
    /\ UNCHANGED <<config, timestamp_data, sentiment_data, raisedEver>>
    /\ UNCHANGED <<threads, replica, database>>

detect_volume_anomaly(current_volume, timestamp) ==
    /\ last' = [op |-> "detect_volume_anomaly",
                current_value |-> current_volume, timestamp |-> timestamp,
                raised |-> FALSE,
                result |-> DetectVolumeAnomaly(volume_data, current_volume,
                                               timestamp)]
    /\ UNCHANGED <<config, timestamp_data, volume_data, sentiment_data,
                   raisedEver>>
    /\ UNCHANGED <<threads, replica, database>>

detect_sentiment_anomaly(current_sentiment, timestamp) ==
    /\ last' = [op |-> "detect_sentiment_anomaly",
                current_value |-> current_sentiment, timestamp |-> timestamp,
                raised |-> FALSE,
                result |-> DetectSentimentAnomaly(sentiment_data,
                                                  current_sentiment,
                                                  timestamp)]
    /\ UNCHANGED <<config, timestamp_data, volume_data, sentiment_data,
                   raisedEver>>
    /\ UNCHANGED <<threads, replica, database>>

get_window_stats ==
    /\ last' = [op |-> "get_window_stats", raised |-> FALSE,
                result |-> GetWindowStats(timestamp_data, volume_data,
                                          sentiment_data)]
    /\ UNCHANGED <<config, timestamp_data, volume_data, sentiment_data,
                   raisedEver>>
    /\ UNCHANGED <<threads, replica, database>>

\* a reset that forgets to clear the timestamps
reset_KeepsTimestamps ==
    /\ volume_data' = <<>>
    /\ sentiment_data' = <<>>
    /\ last' = [op |-> "reset", raised |-> FALSE,
                count_before |-> Len(timestamp_data)]
    /\ UNCHANGED <<config, timestamp_data, raisedEver>>
    /\ UNCHANGED <<threads, replica, database>>

reset ==
    /\ volume_data' = <<>>
    /\ sentiment_data' = <<>>
    /\ timestamp_data' = <<>>
    /\ last' = [op |-> "reset", raised |-> FALSE,
                count_before |-> Len(timestamp_data)]
    /\ UNCHANGED <<config, raisedEver>>
    /\ UNCHANGED <<threads, replica, database>>

\* A caller's loop of k >= 1 identical add_data_point calls; an exception
\* ends the loop.  count_before is the length of the timestamp series
\* before the last call made.
RECURSIVE Feed(_, _, _, _, _, _, _)
Feed(ts, vol, sent, k, volume, sentiment_score, timestamp) ==
    LET r == AddDataPoint(ts, vol, sent, volume, sentiment_score, timestamp)
    IN  IF r.raised \/ k = 1
        THEN [ts |-> r.ts, vol |-> r.vol, sent |-> r.sent,
              raised |-> r.raised, count_before |-> Len(ts)]
        ELSE Feed(r.ts, r.vol, r.sent, k - 1, volume, sentiment_score,
                  timestamp)

feed(k, volume, sentiment_score, timestamp) ==
    /\ LET r == Feed(timestamp_data, volume_data, sentiment_data, k,
                     volume, sentiment_score, timestamp)
       IN  /\ timestamp_data' = r.ts
           /\ volume_data' = r.vol
           /\ sentiment_data' = r.sent
           /\ raisedEver' = (raisedEver \/ r.raised)
           /\ last' = [op |-> "add_data_point", volume |-> volume,
                       sentiment_score |-> sentiment_score,
                       timestamp |-> timestamp, raised |-> r.raised,
                       count_before |-> r.count_before, calls |-> k]
    /\ UNCHANGED config
    /\ UNCHANGED <<threads, replica, database>>

\* the bound on window-changing calls
Budget == ops < MaxOps /\ ops' = ops + 1

---------------------------------------------------------------------------
(* Spec: a detector with a 4-hour window (capacity 16) fed in loops, with  *)
(* timestamps more than a window apart                                     *)

BurstSizes == {9, 15}
Times == {0, FarTime}
NumVolumes == {Num(v) : v \in Values}
NumSentiments == {Num(0), Num(1)}
FeedSentiments == {Num(0)}
VolumeProbes == {Num(v) : v \in 0..(MaxValue + 1)} \cup {Malformed}
SentimentProbes == NumSentiments \cup {Malformed}

Next ==
    \/ Budget /\ \E k \in BurstSizes, v \in NumVolumes,
                     s \in FeedSentiments, t \in Times : feed(k, v, s, t)
    \/ Budget /\ \E v \in NumVolumes, s \in NumSentiments, t \in Times :
                     detect_anomalies(v, s, t)
    \/ \E v \in VolumeProbes, t \in Times :
           detect_volume_anomaly(v, t) /\ UNCHANGED ops
    \/ \E s \in SentimentProbes, t \in Times :
           detect_sentiment_anomaly(s, t) /\ UNCHANGED ops
    \/ get_window_stats /\ UNCHANGED ops
    \/ reset /\ UNCHANGED ops

Spec == Init /\ [][Next]_vars

\* The detections probed with float('nan') as well: a float the callers can
\* pass like any other, on which float() and the arithmetic do not raise.
NextProbe ==
    \/ Budget /\ \E k \in BurstSizes, v \in NumVolumes,
                     s \in FeedSentiments, t \in Times : feed(k, v, s, t)
    \/ Budget /\ \E v \in NumVolumes, s \in NumSentiments, t \in Times :
                     detect_anomalies(v, s, t)
    \/ \E v \in VolumeProbes \cup {NaN}, t \in Times :
           detect_volume_anomaly(v, t) /\ UNCHANGED ops
    \/ \E s \in SentimentProbes \cup {NaN}, t \in Times :
           detect_sentiment_anomaly(s, t) /\ UNCHANGED ops

SpecProbe == Init /\ [][NextProbe]_vars

\* Consecutive detect_anomalies calls on AnomalyDetector(), one an hour:
\* the default 24-hour window evicts nothing within MaxCalls calls.
NextCalls ==
    /\ ops < MaxCalls
    /\ ops' = ops + 1
    /\ \E v \in NumVolumes : detect_anomalies(v, Num(0), ops)

SpecCalls == Construct(NoneArg, NoneArg) /\ [][NextCalls]_vars

---------------------------------------------------------------------------
(* SpecArgs: detectors with the default and with a 1-hour window, called   *)
(* one sample at a time with well-formed and malformed arguments           *)

ArgTimes == 0..MaxTime
ArgVolumes == {Num(1), Malformed}
ArgSentiments == {Num(0), Malformed}

NextArgs ==
    \/ Budget /\ \E v \in ArgVolumes, s \in ArgSentiments, t \in ArgTimes :
                     add_data_point(v, s, t)
    \/ Budget /\ \E v \in ArgVolumes, s \in ArgSentiments, t \in ArgTimes :
                     detect_anomalies(v, s, t)
    \/ \E v \in ArgVolumes, t \in ArgTimes :
           detect_volume_anomaly(v, t) /\ UNCHANGED ops
    \/ \E s \in ArgSentiments, t \in ArgTimes :
           detect_sentiment_anomaly(s, t) /\ UNCHANGED ops
    \/ get_window_stats /\ UNCHANGED ops
    \/ reset /\ UNCHANGED ops

SpecArgs == InitArgs /\ [][NextArgs]_vars

---------------------------------------------------------------------------
(* SpecConfig: the same calls on detectors constructed with omitted, zero  *)
(* and non-zero arguments                                                  *)

WindowArgs == {NoneArg, Num(0), Num(1), Num(2)}
ZThresholdArgs == {NoneArg, Num(RZero), Num(<<3, 2>>)}

InitConfig == \E w \in WindowArgs, z \in ZThresholdArgs : Construct(w, z)

SpecConfig == InitConfig /\ [][NextArgs]_vars

---------------------------------------------------------------------------
(* SpecTime: the same detectors given well-formed samples one at a time,   *)
(* with timestamps in any order                                            *)

TimedBudget == ops < MaxTimedOps /\ ops' = ops + 1

NextTime ==
    \/ TimedBudget /\ \E t \in ArgTimes : add_data_point(Num(1), Num(0), t)
    \/ TimedBudget /\ \E t \in ArgTimes :
                          detect_anomalies(Num(1), Num(0), t)
    \/ get_window_stats /\ UNCHANGED ops
    \/ reset /\ UNCHANGED ops

SpecTime == InitArgs /\ [][NextTime]_vars

---------------------------------------------------------------------------
(* SpecThreads: two threads call add_data_point on one detector with a     *)
(* 1-hour window.  The detector takes no lock, so the calls interleave     *)
(* between any two operations on the deques.  A further caller reads the   *)
(* window with get_window_stats at any moment; its three reads are taken   *)
(* together, one of the schedules the interpreter allows.                  *)

ThreadTimes == {0, MaxTime}

quiet == <<config, ops, last, replica, database>>

\* thread i enters add_data_point(volume, sentiment_score, timestamp):
\* _clean_old_data computes cutoff_time
call_add_data_point(i, volume, sentiment_score, timestamp) ==
    /\ threads[i].pc = "idle"
    /\ ops < MaxThreadCalls
    /\ ops' = ops + 1
    /\ threads' = [threads EXCEPT ![i] =
                       [pc |-> "while", returned |-> threads[i].returned,
                        volume |-> volume,
                        sentiment_score |-> sentiment_score,
                        timestamp |-> timestamp,
                        cutoff_time |-> timestamp - window_size_hours]]
    /\ UNCHANGED <<config, last, replica, database, timestamp_data,
                   volume_data, sentiment_data, raisedEver>>

\* while self.timestamp_data and self.timestamp_data[0] < cutoff_time
loop_test(i) ==
    /\ threads[i].pc = "while"
    /\ threads' = [threads EXCEPT ![i].pc =
                       IF /\ timestamp_data # <<>>
                          /\ timestamp_data[1].x < threads[i].cutoff_time
                       THEN "popleft_timestamp"
                       ELSE "append_timestamp"]
    /\ UNCHANGED <<quiet, timestamp_data, volume_data, sentiment_data,
                   raisedEver>>

\* a popleft of the timestamp series that removes nothing
popleft_timestamp_Stuck(i) ==
    /\ threads[i].pc = "popleft_timestamp"
    /\ threads' = [threads EXCEPT ![i].pc = "popleft_volume"]
    /\ UNCHANGED <<quiet, timestamp_data, volume_data, sentiment_data,
                   raisedEver>>

\* self.timestamp_data.popleft(): IndexError on a deque that another thread
\* has emptied since the test
popleft_timestamp(i) ==
    /\ threads[i].pc = "popleft_timestamp"
    /\ IF timestamp_data = <<>>
       THEN /\ threads' = [threads EXCEPT ![i] =
                               [pc |-> "idle",
                                returned |-> threads[i].returned]]
            /\ raisedEver' = TRUE
            /\ UNCHANGED timestamp_data
       ELSE /\ timestamp_data' = PopLeft(timestamp_data)
            /\ threads' = [threads EXCEPT ![i].pc = "popleft_volume"]
            /\ UNCHANGED raisedEver
    /\ UNCHANGED <<quiet, volume_data, sentiment_data>>

\* if self.volume_data: self.volume_data.popleft()
popleft_volume(i) ==
    /\ threads[i].pc = "popleft_volume"
    /\ volume_data' = IF volume_data # <<>> THEN PopLeft(volume_data)
                      ELSE volume_data
    /\ threads' = [threads EXCEPT ![i].pc = "popleft_sentiment"]
    /\ UNCHANGED <<quiet, timestamp_data, sentiment_data, raisedEver>>

\* if self.sentiment_data: self.sentiment_data.popleft()
popleft_sentiment(i) ==
    /\ threads[i].pc = "popleft_sentiment"
    /\ sentiment_data' = IF sentiment_data # <<>> THEN PopLeft(sentiment_data)
                         ELSE sentiment_data
    /\ threads' = [threads EXCEPT ![i].pc = "while"]
    /\ UNCHANGED <<quiet, timestamp_data, volume_data, raisedEver>>

\* self.timestamp_data.append(timestamp)
append_timestamp(i) ==
    /\ threads[i].pc = "append_timestamp"
    /\ timestamp_data' =
           DequeAppend(timestamp_data,
                       Entry(threads[i].timestamp, threads[i].timestamp,
                             threads[i].volume, threads[i].sentiment_score),
                       Capacity)
    /\ threads' = [threads EXCEPT ![i].pc = "append_volume"]
    /\ UNCHANGED <<quiet, volume_data, sentiment_data, raisedEver>>

\* self.volume_data.append(float(volume))
append_volume(i) ==
    /\ threads[i].pc = "append_volume"
    /\ volume_data' =
           DequeAppend(volume_data,
                       Entry(threads[i].volume.num, threads[i].timestamp,
                             threads[i].volume, threads[i].sentiment_score),
                       Capacity)
    /\ threads' = [threads EXCEPT ![i].pc = "append_sentiment"]
    /\ UNCHANGED <<quiet, timestamp_data, sentiment_data, raisedEver>>

\* self.sentiment_data.append(float(sentiment_score)); the call returns
append_sentiment(i) ==
    /\ threads[i].pc = "append_sentiment"
    /\ sentiment_data' =
           DequeAppend(sentiment_data,
                       Entry(threads[i].sentiment_score.num,
                             threads[i].timestamp, threads[i].volume,
                             threads[i].sentiment_score),
                       Capacity)
    /\ threads' = [threads EXCEPT ![i] =
                       [pc |-> "idle",
                        returned |->
                            Append(threads[i].returned,
                                   <<threads[i].volume,
                                     threads[i].sentiment_score,
                                     threads[i].timestamp>>)]]
    /\ UNCHANGED <<quiet, timestamp_data, volume_data, raisedEver>>

NextThreads ==
    \/ \E i \in Threads, t \in ThreadTimes :
           call_add_data_point(i, Num(1), Num(0), t)
    \/ \E i \in Threads : loop_test(i)
    \/ \E i \in Threads : popleft_timestamp(i)
    \/ \E i \in Threads : popleft_volume(i)
    \/ \E i \in Threads : popleft_sentiment(i)
    \/ \E i \in Threads : append_timestamp(i)
    \/ \E i \in Threads : append_volume(i)
    \/ \E i \in Threads : append_sentiment(i)
    \/ get_window_stats /\ UNCHANGED ops

SpecThreads == Construct(Num(1), NoneArg) /\ [][NextThreads]_vars

\* The same with the scheduling the interpreter gives: a thread that is
\* inside a call is eventually given its next step.
SpecThreadsFair ==
    /\ SpecThreads
    /\ \A i \in Threads :
           WF_vars(\/ loop_test(i)
                   \/ popleft_timestamp(i)
                   \/ popleft_volume(i)
                   \/ popleft_sentiment(i)
                   \/ append_timestamp(i)
                   \/ append_volume(i)
                   \/ append_sentiment(i))

\* the window after the calls of the sequence calls, made one after the
\* other on the series ts, vol, sent
RECURSIVE SerialRun(_, _, _, _)
SerialRun(ts, vol, sent, calls) ==
    IF calls = <<>> THEN [ts |-> ts, vol |-> vol, sent |-> sent]
    ELSE LET r == AddDataPoint(ts, vol, sent, Head(calls)[1], Head(calls)[2],
                               Head(calls)[3])
         IN  SerialRun(r.ts, r.vol, r.sent, Tail(calls))

\* the calls that have returned, thread by thread
ReturnedCalls == threads[1].returned \o threads[2].returned

---------------------------------------------------------------------------
(* SpecReplay: two detectors with a 1-hour window are given the same       *)
(* calls, each call reaching them at wall-clock times of their own.  A     *)
(* call may omit its timestamp.                                            *)

\* a wall clock that takes the place of every timestamp
ResolveTimestamp_WallClock(timestamp, now) == now

\* if timestamp is None: timestamp = datetime.utcnow()
ResolveTimestamp(timestamp, now) ==
    IF timestamp = NoneArg THEN now ELSE timestamp.num

\* explicit: no call so far has omitted its timestamp;
\* skewed: some call reached the two detectors at different times
ReplicaAfter(ts, vol, sent, call, timestamp, now, now2) ==
    [timestamp_data |-> ts, volume_data |-> vol, sentiment_data |-> sent,
     last |-> call,
     explicit |-> (replica.explicit /\ timestamp # NoneArg),
     skewed |-> (replica.skewed \/ now # now2)]

replay_add_data_point(volume, sentiment_score, timestamp, now, now2) ==
    /\ LET t1 == ResolveTimestamp(timestamp, now)
           t2 == ResolveTimestamp(timestamp, now2)
           r == AddDataPoint(timestamp_data, volume_data, sentiment_data,
                             volume, sentiment_score, t1)
           r2 == AddDataPoint(replica.timestamp_data, replica.volume_data,
                              replica.sentiment_data, volume,
                              sentiment_score, t2)
       IN  /\ timestamp_data' = r.ts
           /\ volume_data' = r.vol
           /\ sentiment_data' = r.sent
           /\ raisedEver' = (raisedEver \/ r.raised)
           /\ last' = [op |-> "add_data_point", volume |-> volume,
                       sentiment_score |-> sentiment_score,
                       timestamp |-> t1, raised |-> r.raised,
                       count_before |-> Len(timestamp_data), calls |-> 1]
           /\ replica' =
                  ReplicaAfter(r2.ts, r2.vol, r2.sent,
                               [op |-> "add_data_point", volume |-> volume,
                                sentiment_score |-> sentiment_score,
                                timestamp |-> t2, raised |-> r2.raised,
                                count_before |->
                                    Len(replica.timestamp_data),
                                calls |-> 1],
                               timestamp, now, now2)
    /\ UNCHANGED <<config, threads, database>>

replay_detect_anomalies(volume, sentiment_score, timestamp, now, now2) ==
    /\ LET t1 == ResolveTimestamp(timestamp, now)
           t2 == ResolveTimestamp(timestamp, now2)
           r == DetectAnomaliesOutcome(timestamp_data, volume_data,
                                       sentiment_data, volume,
                                       sentiment_score, t1)
           r2 == DetectAnomaliesOutcome(replica.timestamp_data,
                                        replica.volume_data,
                                        replica.sentiment_data, volume,
                                        sentiment_score, t2)
       IN  /\ timestamp_data' = r.ts
           /\ volume_data' = r.vol
           /\ sentiment_data' = r.sent
           /\ raisedEver' = (raisedEver \/ r.raised)
           /\ last' = [op |-> "detect_anomalies", volume |-> volume,
                       sentiment_score |-> sentiment_score,
                       timestamp |-> t1, raised |-> r.raised,
                       count_before |-> Len(timestamp_data),
                       result |-> r.result]
           /\ replica' =
                  ReplicaAfter(r2.ts, r2.vol, r2.sent,
                               [op |-> "detect_anomalies",
                                volume |-> volume,
                                sentiment_score |-> sentiment_score,
                                timestamp |-> t2, raised |-> r2.raised,
                                count_before |->
                                    Len(replica.timestamp_data),
                                result |-> r2.result],
                               timestamp, now, now2)
    /\ UNCHANGED <<config, threads, database>>

replay_detect_volume_anomaly(current_volume, timestamp, now, now2) ==
    /\ LET t1 == ResolveTimestamp(timestamp, now)
           t2 == ResolveTimestamp(timestamp, now2)
       IN  /\ last' = [op |-> "detect_volume_anomaly",
                       current_value |-> current_volume, timestamp |-> t1,
                       raised |-> FALSE,
                       result |-> DetectVolumeAnomaly(volume_data,
                                                      current_volume, t1)]
           /\ replica' =
                  ReplicaAfter(replica.timestamp_data, replica.volume_data,
                               replica.sentiment_data,
                               [op |-> "detect_volume_anomaly",
                                current_value |-> current_volume,
                                timestamp |-> t2, raised |-> FALSE,
                                result |->
                                    DetectVolumeAnomaly(replica.volume_data,
                                                        current_volume, t2)],
                               timestamp, now, now2)
    /\ UNCHANGED <<config, threads, database, timestamp_data,
                   volume_data, sentiment_data, raisedEver>>

WallTimes == {MaxTime, MaxTime + 2}
ReplayTimestamps == {NoneArg, Num(0), Num(MaxTime)}

NextReplay ==
    \/ Budget /\ \E t \in ReplayTimestamps, now \in WallTimes,
                     now2 \in WallTimes :
                     replay_add_data_point(Num(1), Num(0), t, now, now2)
    \/ Budget /\ \E t \in ReplayTimestamps, now \in WallTimes,
                     now2 \in WallTimes :
                     replay_detect_anomalies(Num(1), Num(0), t, now, now2)
    \/ \E t \in ReplayTimestamps, now \in WallTimes, now2 \in WallTimes :
           replay_detect_volume_anomaly(Num(1), t, now, now2)
           /\ UNCHANGED ops

SpecReplay == Construct(Num(1), NoneArg) /\ [][NextReplay]_vars

---------------------------------------------------------------------------
(* SpecReset: a detector with a 1-hour window is given samples and then    *)
(* reset; from the reset on, every call is also given to the second        *)
(* detector, which until then has only been constructed with the same      *)
(* arguments.  A call that omits its timestamp reaches both at the same    *)
(* wall-clock time.                                                        *)

NextReset ==
    \/ /\ replica.last.op = "__init__" /\ last.op # "reset"
       /\ TimedBudget
       /\ \E v \in ArgVolumes, t \in ArgTimes : add_data_point(v, Num(0), t)
    \/ /\ replica.last.op = "__init__" /\ last.op # "reset"
       /\ reset /\ UNCHANGED ops
    \/ /\ ~(replica.last.op = "__init__" /\ last.op # "reset")
       /\ TimedBudget
       /\ \E v \in ArgVolumes, t \in ReplayTimestamps :
              replay_add_data_point(v, Num(0), t, MaxTime + 2, MaxTime + 2)
    \/ /\ ~(replica.last.op = "__init__" /\ last.op # "reset")
       /\ TimedBudget
       /\ \E v \in ArgVolumes, t \in ReplayTimestamps :
              replay_detect_anomalies(v, Num(0), t, MaxTime + 2, MaxTime + 2)
    \/ /\ ~(replica.last.op = "__init__" /\ last.op # "reset")
       /\ \E v \in ArgVolumes, t \in ReplayTimestamps :
              replay_detect_volume_anomaly(v, t, MaxTime + 2, MaxTime + 2)
       /\ UNCHANGED ops

SpecReset == Construct(Num(1), NoneArg) /\ [][NextReset]_vars

---------------------------------------------------------------------------
(* SpecScheduler: MarketAnalyzer.run, the hourly job, on the detector that *)
(* MarketAnalyzer.__init__ constructs with a 24-hour window and threshold  *)
(* 2.5.  Whether news was fetched and the average compound score come from *)
(* collaborators and are inputs of a run.                                  *)

\* a volume that is fetched, and moves from the tenth run on
current_volume_Fetched == IF ops < 9 THEN 1000 ELSE 1001

\* current_volume = 1000.0
current_volume == 1000

\* One run at wall-clock time now.  Without news it returns before step 4
\* and the detector is not called;
\* otherwise it calls detect_anomalies(volume=current_volume,
\* sentiment_score=current_sentiment) with no timestamp.  Its except clause
\* catches whatever the steps raise.
run(news_items, current_sentiment, now) ==
    /\ IF news_items = <<>>
       THEN /\ last' = [op |-> "run", raised |-> FALSE, caught |-> FALSE,
                        timestamp |-> now, anomalies |-> <<>>]
            /\ UNCHANGED <<timestamp_data, volume_data, sentiment_data,
                           raisedEver, ops>>
       ELSE LET r == DetectAnomaliesOutcome(
                         timestamp_data, volume_data, sentiment_data,
                         Num(current_volume), current_sentiment,
                         ResolveTimestamp(NoneArg, now))
            IN  /\ timestamp_data' = r.ts
                /\ volume_data' = r.vol
                /\ sentiment_data' = r.sent
                /\ raisedEver' = (raisedEver \/ r.raised)
                /\ last' = [op |-> "run", raised |-> FALSE,
                            caught |-> r.raised, timestamp |-> now,
                            anomalies |-> r.result]
                /\ ops < MaxRuns
                /\ ops' = ops + 1
    /\ UNCHANGED config
    /\ UNCHANGED <<threads, replica, database>>

\* the clock advances an hour with every run that reaches the detector;
\* the score is a number or, in at most one run of a behaviour, a value
\* that float() rejects
NextScheduler ==
    \E news_items \in {<<>>, <<"item">>},
       current_sentiment \in
           NumSentiments \cup IF raisedEver THEN {} ELSE {Malformed} :
        run(news_items, current_sentiment, ops)

SpecScheduler == Construct(Num(24), Num(<<5, 2>>)) /\ [][NextScheduler]_vars

---------------------------------------------------------------------------
(* detect_spike: the module-level helper.  The configuration in the state  *)
(* is that of the detector the helper constructs,                          *)
(* AnomalyDetector(z_threshold=z_threshold): the constructor arguments are *)
(* drawn by InitSpike, the other arguments by the action.                  *)

\* for value in baseline_values[lo..hi]: detector.add_data_point(value,
\* 0.0, dummy_timestamp), on the detector w; an exception ends the loop.
\* The loop over lo..hi is the loop over its first half followed by the
\* loop over its second half (the singleton set binds the detector between
\* the halves to its value).
RECURSIVE FeedSlice(_, _, _, _, _)
FeedSlice(w, baseline_values, lo, hi, dummy_timestamp) ==
    IF w.raised \/ lo > hi THEN w
    ELSE IF lo = hi
    THEN AddDataPoint(w.ts, w.vol, w.sent, baseline_values[lo], Num(0),
                      dummy_timestamp)
    ELSE CHOOSE r \in
             { FeedSlice(h, baseline_values, ((lo + hi) \div 2) + 1, hi,
                         dummy_timestamp) :
                 h \in { FeedSlice(w, baseline_values, lo, (lo + hi) \div 2,
                                   dummy_timestamp) } } :
             TRUE

\* the detector after the loop over the whole baseline
FeedBaseline(baseline_values, dummy_timestamp) ==
    FeedSlice([ts |-> <<>>, vol |-> <<>>, sent |-> <<>>, raised |-> FALSE],
              baseline_values, 1, Len(baseline_values), dummy_timestamp)

\* what detect_spike gives back: the pair it returns, or an exception
SpikeReturn(is_anomaly, severity_score) ==
    [raised |-> FALSE, is_anomaly |-> is_anomaly,
     severity_score |-> severity_score]
SpikeRaise == [raised |-> TRUE]

\* a detect_spike without the guard on the baseline length
DetectSpike_NoGuard(current_value, baseline_values, dummy_timestamp) ==
    LET detector == FeedBaseline(baseline_values, dummy_timestamp)
    IN  IF detector.raised THEN SpikeRaise
        ELSE LET result == DetectVolumeAnomaly(detector.vol, current_value,
                                               dummy_timestamp)
             IN  SpikeReturn(result.is_anomaly, result.severity_score)

\* detect_spike(current_value, baseline_values, z_threshold), with
\* dummy_timestamp the value of datetime.utcnow()
DetectSpike(current_value, baseline_values, dummy_timestamp) ==
    IF Len(baseline_values) < 10
    THEN SpikeReturn(FALSE, Zero)
    ELSE LET detector == FeedBaseline(baseline_values, dummy_timestamp)
         IN  IF detector.raised THEN SpikeRaise
             ELSE LET result == DetectVolumeAnomaly(detector.vol,
                                                    current_value,
                                                    dummy_timestamp)
                  IN  SpikeReturn(result.is_anomaly, result.severity_score)

detect_spike(current_value, baseline_values, dummy_timestamp) ==
    /\ last' = [op |-> "detect_spike", current_value |-> current_value,
                baseline_values |-> baseline_values,
                z_threshold |-> last.z_threshold,
                result |-> DetectSpike(current_value, baseline_values,
                                       dummy_timestamp)]
    /\ UNCHANGED <<config, timestamp_data, volume_data, sentiment_data, ops,
                   raisedEver>>
    /\ UNCHANGED <<threads, replica, database>>

---------------------------------------------------------------------------
(* SpecSpike: detect_spike on baselines made of an optional leading value  *)
(* (an outlier, or a value that is not a number) and a run that alternates *)
(* between two values; the longest baselines exceed the 96 entries the     *)
(* helper's detector (24 hours) can hold                                   *)

SpikeThresholds == {NoneArg, Num(<<7, 4>>)}

InitSpike == \E z \in SpikeThresholds : Construct(NoneArg, z)

\* n values: odd positions lo, even positions hi
Alternating(n, lo, hi) ==
    [i \in 1..n |-> IF i % 2 = 1 THEN Num(lo) ELSE Num(hi)]

BaselineLeads == {<<>>, <<Num(MaxOutlier)>>, <<Malformed>>}
BaselineRunLengths == {2, 8, 9, 10, 12, MaxBaseline}
BaselineRunValues == {<<1, 1>>, <<0, 2>>}
SpikeProbes == {Num(0), Num(1), Num(3), Malformed}

NextSpike ==
    \E lead \in BaselineLeads, n \in BaselineRunLengths,
       v \in BaselineRunValues, c \in SpikeProbes, now \in WallTimes :
        detect_spike(c, lead \o Alternating(n, v[1], v[2]), now)

SpecSpike == InitSpike /\ [][NextSpike]_vars

---------------------------------------------------------------------------
(* api/server.py: the HTTP front end.  A text is a sequence of characters; *)
(* the analyzer it calls (module sentiment) is outside the sources, so a   *)
(* call to it either raises or returns a compound score.                   *)

Chars == {" ", "a"}

\* the sequences over S of length at most n
SeqsUpTo(S, n) == UNION {[1..k -> S] : k \in 0..n}

\* str.lstrip, str.rstrip and str.strip of whitespace
RECURSIVE LStrip(_)
LStrip(text) ==
    IF text # <<>> /\ Head(text) = " " THEN LStrip(Tail(text)) ELSE text

RECURSIVE RStrip(_)
RStrip(text) ==
    IF text # <<>> /\ text[Len(text)] = " "
    THEN RStrip(SubSeq(text, 1, Len(text) - 1))
    ELSE text

Strip(text) == RStrip(LStrip(text))

\* what sentiment_analyzer.analyze / analyze_batch can do
AnalyzerOutcomes ==
    {[raised |-> TRUE]}
        \cup {[raised |-> FALSE, compound_score |-> c] :
                 c \in {<<-1, 2>>, RZero, <<1, 2>>}}

\* how the body of a handler ends: a value returned, an HTTPException
\* raised, or another exception raised
Returned(body) == [kind |-> "return", body |-> body]
HTTPException(status_code, detail) ==
    [kind |-> "HTTPException", status_code |-> status_code,
     detail |-> detail]
OtherException == [kind |-> "Exception"]

\* the response FastAPI sends for the way a handler ends
Response(ending) ==
    IF ending.kind = "return"
    THEN [status_code |-> 200, body |-> ending.body]
    ELSE IF ending.kind = "HTTPException"
    THEN [status_code |-> ending.status_code, detail |-> ending.detail]
    ELSE [status_code |-> 500, detail |-> "Internal Server Error"]

\* the try block of analyze_text
AnalyzeTextTry(text, outcome) ==
    IF text = <<>> \/ Strip(text) = <<>>
    THEN HTTPException(400, "Text cannot be empty")
    ELSE IF outcome.raised THEN OtherException
    ELSE Returned([sentiment |-> outcome.compound_score])

\* analyze_text: `except HTTPException: raise`, then `except Exception`
AnalyzeTextHandler(text, outcome) ==
    LET ending == AnalyzeTextTry(text, outcome)
    IN  IF ending.kind = "HTTPException" THEN ending
        ELSE IF ending.kind = "Exception"
        THEN HTTPException(500, "Internal server error")
        ELSE ending

\* the try block of analyze_batch
AnalyzeBatchTry(texts, outcome) ==
    IF texts = <<>>
    THEN HTTPException(400, "Texts list cannot be empty")
    ELSE IF outcome.raised THEN OtherException
    ELSE Returned([results |-> [i \in 1..Len(texts) |->
                                    outcome.compound_score],
                   count |-> Len(texts)])

\* analyze_batch: the one clause `except Exception as e` also catches an
\* HTTPException, which is an Exception
AnalyzeBatchHandler(texts, outcome) ==
    LET ending == AnalyzeBatchTry(texts, outcome)
    IN  IF ending.kind \in {"HTTPException", "Exception"}
        THEN HTTPException(500, "str(e)")
        ELSE ending

post_analyze(text, outcome) ==
    /\ last' = [op |-> "POST /analyze", text |-> text, outcome |-> outcome,
                response |-> Response(AnalyzeTextHandler(text, outcome))]
    /\ UNCHANGED <<config, timestamp_data, volume_data, sentiment_data, ops,
                   raisedEver>>
    /\ UNCHANGED <<threads, replica, database>>

post_analyze_batch(texts, outcome) ==
    /\ last' = [op |-> "POST /analyze-batch", texts |-> texts,
                outcome |-> outcome,
                response |-> Response(AnalyzeBatchHandler(texts, outcome))]
    /\ UNCHANGED <<config, timestamp_data, volume_data, sentiment_data, ops,
                   raisedEver>>
    /\ UNCHANGED <<threads, replica, database>>

---------------------------------------------------------------------------
(* SpecServer: requests to POST /analyze and POST /analyze-batch          *)

Texts == SeqsUpTo(Chars, MaxTextLen)

NextServer ==
    \/ \E text \in Texts, outcome \in AnalyzerOutcomes :
           post_analyze(text, outcome)
    \/ \E texts \in SeqsUpTo(Texts, MaxBatch), outcome \in AnalyzerOutcomes :
           post_analyze_batch(texts, outcome)

SpecServer == Construct(NoneArg, NoneArg) /\ [][NextServer]_vars

---------------------------------------------------------------------------
(* db/postgres_service.py: the batch saves.  A table is the sequence of    *)
(* its committed rows; a session holds the rows added and not yet          *)
(* flushed (autoflush=False).                                              *)

\* session.add(row)
SessionAdd(pending, row) == Append(pending, row)

\* the rows of pending that break a NOT NULL constraint of models.py
\* (sentiment_score of news_insights, current_value of asset_trends)
BreaksNotNull(row) == row.value = NoneArg

\* get_session on leaving the with block: session.commit() flushes the
\* pending rows in one transaction; a database error (an unreachable
\* server, a broken constraint) rolls the transaction back and is raised
\* again
Commit(table, pending, db_error) ==
    IF db_error \/ \E i \in 1..Len(pending) : BreaksNotNull(pending[i])
    THEN [raised |-> TRUE, table |-> table]
    ELSE [raised |-> FALSE, table |-> table \o pending]

\* the loop of a batch save: one row per record, session.add(row),
\* saved_count += 1
RECURSIVE AddAll(_, _, _)
AddAll(pending, saved_count, records) ==
    IF records = <<>>
    THEN [pending |-> pending, saved_count |-> saved_count]
    ELSE AddAll(SessionAdd(pending, [value |-> Head(records).value]),
                saved_count + 1, Tail(records))

\* save_news_insights_batch / save_asset_trends_batch on a table: the
\* SQLAlchemyError of the commit is caught and logged, and saved_count is
\* returned
SaveBatch(table, records, db_error) ==
    LET added == AddAll(<<>>, 0, records)
        done == Commit(table, added.pending, db_error)
    IN  [returned |-> added.saved_count, table |-> done.table]

save_news_insights_batch(sentiment_results, db_error) ==
    /\ LET r == SaveBatch(database.news_insights, sentiment_results,
                          db_error)
       IN  /\ database' = [database EXCEPT !.news_insights = r.table]
           /\ last' = [op |-> "save_news_insights_batch",
                       records |-> sentiment_results,
                       db_error |-> db_error, returned |-> r.returned]
    /\ UNCHANGED <<config, timestamp_data, volume_data, sentiment_data,
                   raisedEver, threads, replica>>

save_asset_trends_batch(trends, db_error) ==
    /\ LET r == SaveBatch(database.asset_trends, trends, db_error)
       IN  /\ database' = [database EXCEPT !.asset_trends = r.table]
           /\ last' = [op |-> "save_asset_trends_batch", records |-> trends,
                       db_error |-> db_error, returned |-> r.returned]
    /\ UNCHANGED <<config, timestamp_data, volume_data, sentiment_data,
                   raisedEver, threads, replica>>

\* a get_session that closes the session only after a successful commit
GetSession_CloseOnSuccess(table, pending, body, commit_error) ==
    IF body = "returns"
    THEN LET done == Commit(table, pending, commit_error)
         IN  IF done.raised
             THEN [calls |-> <<"commit", "rollback">>, raised |-> TRUE,
                   transaction |-> "rolled back", closed |-> FALSE,
                   table |-> table]
             ELSE [calls |-> <<"commit", "close">>, raised |-> FALSE,
                   transaction |-> "committed", closed |-> TRUE,
                   table |-> done.table]
    ELSE IF body = "KeyboardInterrupt"
    THEN [calls |-> <<>>, raised |-> TRUE, transaction |-> "open",
          closed |-> FALSE, table |-> table]
    ELSE [calls |-> <<"rollback">>, raised |-> TRUE,
          transaction |-> "rolled back", closed |-> FALSE, table |-> table]

\* One use of get_session: `with self.get_session() as session: <body>`.
\* pending holds the rows the body added; body tells how the body ended:
\* "returns", or the exception it raised.  The calls made on the session,
\* whether the with statement raises, and the transaction at the end: a
\* successful commit() commits it, rollback() rolls it back, and close()
\* rolls back a transaction that is still open.  KeyboardInterrupt is not
\* an Exception, so `except Exception` lets it pass.
GetSession(table, pending, body, commit_error) ==
    IF body = "returns"
    THEN LET done == Commit(table, pending, commit_error)
         IN  IF done.raised
             THEN [calls |-> <<"commit", "rollback", "close">>,
                   raised |-> TRUE, transaction |-> "rolled back",
                   closed |-> TRUE, table |-> table]
             ELSE [calls |-> <<"commit", "close">>, raised |-> FALSE,
                   transaction |-> "committed", closed |-> TRUE,
                   table |-> done.table]
    ELSE IF body = "KeyboardInterrupt"
    THEN [calls |-> <<"close">>, raised |-> TRUE,
          transaction |-> "rolled back", closed |-> TRUE, table |-> table]
    ELSE [calls |-> <<"rollback", "close">>, raised |-> TRUE,
          transaction |-> "rolled back", closed |-> TRUE, table |-> table]

\* save_news_insight(sentiment_result) with the environment failing at
\* fault: the body reads sentiment_result["compound_score"] (KeyError when
\* missing), adds the row, flushes it (a database error or a broken NOT
\* NULL constraint raises SQLAlchemyError) and returns the insight from
\* inside the with block.  A SQLAlchemyError leaving the with statement is
\* caught and None is returned; any other exception reaches the caller.
save_news_insight(sentiment_result, fault) ==
    /\ LET body == IF "value" \notin DOMAIN sentiment_result
                   THEN "KeyError"
                   ELSE IF fault = "interrupt" THEN "KeyboardInterrupt"
                   ELSE IF \/ fault = "flush"
                           \/ BreaksNotNull(sentiment_result)
                   THEN "SQLAlchemyError"
                   ELSE "returns"
           session == GetSession(database.news_insights,
                                 IF body = "returns"
                                 THEN SessionAdd(<<>>, sentiment_result)
                                 ELSE <<>>,
                                 body, fault = "commit")
       IN  /\ database' = [database EXCEPT !.news_insights = session.table]
           /\ raisedEver' =
                  (raisedEver \/ body \in {"KeyError", "KeyboardInterrupt"})
           /\ last' = [op |-> "save_news_insight",
                       sentiment_result |-> sentiment_result,
                       fault |-> fault, body |-> body, session |-> session,
                       raised |-> body \in {"KeyError", "KeyboardInterrupt"},
                       returned |-> IF session.raised THEN NoneArg
                                    ELSE sentiment_result]
    /\ UNCHANGED <<config, timestamp_data, volume_data, sentiment_data,
                   threads, replica>>

---------------------------------------------------------------------------
(* SpecStore: batch saves of up to MaxRecords records, each with a number  *)
(* or None in its NOT NULL column, against a database that may fail, and   *)
(* single saves of a result that may lack its score, with a failure or an  *)
(* interrupt at any point of the session                                   *)

RecordValues == {Num(0), Num(1), NoneArg}
Batches == SeqsUpTo({[value |-> v] : v \in RecordValues}, MaxRecords)

SaveBudget == ops < MaxSaves /\ ops' = ops + 1

NextStore ==
    \/ SaveBudget /\ \E records \in Batches, db_error \in BOOLEAN :
           save_news_insights_batch(records, db_error)
    \/ SaveBudget /\ \E records \in Batches, db_error \in BOOLEAN :
           save_asset_trends_batch(records, db_error)
    \/ SaveBudget /\ \E sentiment_result \in
                          {[value |-> v] : v \in RecordValues}
                              \cup {[positive |-> Num(0)]},
                       fault \in {"none", "interrupt", "flush", "commit"} :
           save_news_insight(sentiment_result, fault)

SpecStore == Construct(NoneArg, NoneArg) /\ [][NextStore]_vars

---------------------------------------------------------------------------
(* analytics/sentiment.py: SentimentAnalyzer.analyze_text.  A string is a  *)
(* sequence of pieces (a blank, or a word without blanks); an argument is  *)
(* None, a number, or [text |-> string].  The lexicon scorer is a library: *)
(* its compound score for the cleaned text is an input of the call.        *)

Str(pieces) == [text |-> pieces]
IsStr(v) == DOMAIN v = {"text"}

\* `not text`: None, 0 and the empty string are falsy
Falsy(v) ==
    \/ v = NoneArg
    \/ IsNumber(v) /\ v.num = 0
    \/ IsStr(v) /\ v.text = <<>>

\* str.lower of a piece
LowerPiece(w) ==
    CASE w = "Moon" -> "moon"
      [] w = "Crash" -> "crash"
      [] OTHER -> w

Lower(pieces) == [i \in 1..Len(pieces) |-> LowerPiece(pieces[i])]

NEGATIVE_KEYWORDS ==
    {"crash", "crashing", "dump", "bear", "plunge", "collapse"}
POSITIVE_KEYWORDS == {"moon", "bull", "surge", "rally", "all time high", "ath"}

\* the keywords that occur in a piece as substrings
KeywordsIn(w) ==
    CASE w = "moon" -> {"moon"}
      [] w = "ath" -> {"ath"}
      [] w = "path" -> {"ath"}
      [] w = "crash" -> {"crash"}
      [] w = "dump" -> {"dump"}
      [] OTHER -> {}

\* any(word in cleaned for word in keywords)
AnyIn(keywords, cleaned) ==
    \E word \in keywords : \E i \in 1..Len(cleaned) :
        word \in KeywordsIn(cleaned[i])

\* what analyze_text gives back: the float returned and whether
\* polarity_scores was called
Scored(returned, consulted) ==
    [returned |-> returned, consulted |-> consulted]

\* an analyze_text that tests the positive keywords first
AnalyzeText_PositiveFirst(text, compound) ==
    IF Falsy(text) \/ ~IsStr(text) THEN Scored(RZero, FALSE)
    ELSE LET cleaned == Lower(Strip(text.text))
         IN  IF cleaned = <<>> THEN Scored(RZero, FALSE)
             ELSE IF compound = RZero /\ AnyIn(POSITIVE_KEYWORDS, cleaned)
             THEN Scored(<<2, 5>>, TRUE)
             ELSE IF compound = RZero /\ AnyIn(NEGATIVE_KEYWORDS, cleaned)
             THEN Scored(<<-2, 5>>, TRUE)
             ELSE Scored(compound, TRUE)

\* analyze_text(text), with compound the lexicon's score of the cleaned
\* text
AnalyzeText(text, compound) ==
    IF Falsy(text) \/ ~IsStr(text) THEN Scored(RZero, FALSE)
    ELSE LET cleaned == Lower(Strip(text.text))
         IN  IF cleaned = <<>> THEN Scored(RZero, FALSE)
             ELSE IF compound = RZero /\ AnyIn(NEGATIVE_KEYWORDS, cleaned)
             THEN Scored(<<-2, 5>>, TRUE)
             ELSE IF compound = RZero /\ AnyIn(POSITIVE_KEYWORDS, cleaned)
             THEN Scored(<<2, 5>>, TRUE)
             ELSE Scored(compound, TRUE)

analyze_text(text, compound) ==
    /\ last' = [op |-> "analyze_text", text |-> text, compound |-> compound,
                result |-> AnalyzeText(text, compound)]
    /\ UNCHANGED <<config, timestamp_data, volume_data, sentiment_data, ops,
                   raisedEver>>
    /\ UNCHANGED <<threads, replica, database>>

---------------------------------------------------------------------------
(* SpecSentiment: analyze_text on None, numbers and short strings, for     *)
(* each compound score the lexicon may give                                *)

Pieces == {" ", "x", "Moon", "ath", "path", "Crash", "dump"}
TextArgs ==
    {NoneArg, Num(0), Num(5)}
        \cup {Str(pieces) : pieces \in SeqsUpTo(Pieces, MaxWords)}
Compounds == {<<-1, 2>>, <<-2, 5>>, RZero, <<1, 2>>}

NextSentiment ==
    \E text \in TextArgs, compound \in Compounds :
        analyze_text(text, compound)

SpecSentiment == Construct(NoneArg, NoneArg) /\ [][NextSentiment]_vars

---------------------------------------------------------------------------
(* SpecSeverity: the scoring functions on their own, as the unit tests     *)
(* call them: _calculate_severity_score(z) for z-scores in quarters, and   *)
(* the computed branch of a detection for a probe value, a baseline mean   *)
(* and a baseline standard deviation                                       *)

ThresholdArgs == {NoneArg, Num(<<3, 2>>), Num(<<3, 1>>)}

InitSeverity == \E z \in ThresholdArgs : Construct(NoneArg, z)

ZScores == {RealOfRat(Rat(n, 4)) : n \in (-MaxZ)..MaxZ}

calculate_severity_score(z_score) ==
    /\ last' = [op |-> "_calculate_severity_score", z_score |-> z_score,
                raised |-> FALSE,
                result |-> CalculateSeverityScore(z_score)]
    /\ UNCHANGED <<config, timestamp_data, volume_data, sentiment_data, ops,
                   raisedEver>>
    /\ UNCHANGED <<threads, replica, database>>

ProbeValues == (-3)..5
BaselineMeans == {<<1, 1>>, <<3, 2>>}
BaselineStds == {RealOfRat(<<2, 3>>), Sqrt(<<1, 2>>), Sqrt(<<10, 9>>),
                 Epsilon}

score(value, mean, std) ==
    /\ last' = [op |-> "score", value |-> value, mean |-> mean, std |-> std,
                raised |-> FALSE, result |-> Score(value, mean, std)]
    /\ UNCHANGED <<config, timestamp_data, volume_data, sentiment_data, ops,
                   raisedEver>>
    /\ UNCHANGED <<threads, replica, database>>

NextSeverity ==
    \/ \E z \in ZScores : calculate_severity_score(z)
    \/ \E v \in ProbeValues, mu \in BaselineMeans, sd \in BaselineStds :
           score(v, mu, sd)

SpecSeverity == InitSeverity /\ [][NextSeverity]_vars

---------------------------------------------------------------------------
(* Properties of the sliding window *)

\* C1: none of the three series ever holds more than window_size_hours * 4
\* entries, whatever the timestamps; an append to a full series discards
\* its oldest entry first.
C1_CapacityBound ==
    /\ Len(timestamp_data) <= window_size_hours * 4
    /\ Len(volume_data) <= window_size_hours * 4
    /\ Len(sentiment_data) <= window_size_hours * 4

\* an insertion into a window that was already full
C1_Witness ==
    /\ last.op \in {"add_data_point", "detect_anomalies"}
    /\ last.count_before = window_size_hours * 4
    /\ Len(timestamp_data) = window_size_hours * 4
    /\ Len(volume_data) = window_size_hours * 4
    /\ Len(sentiment_data) = window_size_hours * 4

C3_SeriesAligned ==
    ~raisedEver =>
        /\ Len(volume_data) = Len(timestamp_data)
        /\ Len(sentiment_data) = Len(timestamp_data)
        /\ \A i \in 1..Len(timestamp_data) :
               /\ volume_data[i].call = timestamp_data[i].call
               /\ sentiment_data[i].call = timestamp_data[i].call

\* an insertion below capacity that evicted expired samples from all three
\* series
C3_Witness ==
    /\ ~raisedEver
    /\ last.op = "detect_anomalies"
    /\ last.count_before >= 2
    /\ last.count_before < window_size_hours * 4
    /\ Len(timestamp_data) <= last.count_before
    /\ Len(volume_data) = Len(timestamp_data)
    /\ Len(sentiment_data) = Len(timestamp_data)

---------------------------------------------------------------------------
(* Properties of the detections *)

\* C4: a detection on a series of fewer than 10 values returns the zeroed
\* non-anomalous result for its metric, and the ValueError of too few data
\* points does not leave the detection.
C4_InsufficientDataZeroed ==
    /\ (last.op = "detect_volume_anomaly" /\ Len(volume_data) < 10) =>
           /\ ~last.raised
           /\ last.result =
                  [is_anomaly |-> FALSE, severity_score |-> Zero,
                   metric_name |-> "volume",
                   current_value |-> last.current_value,
                   baseline_mean |-> Zero, baseline_std |-> Zero,
                   z_score |-> Zero, timestamp |-> last.timestamp]
    /\ (last.op = "detect_sentiment_anomaly" /\ Len(sentiment_data) < 10) =>
           /\ ~last.raised
           /\ last.result =
                  [is_anomaly |-> FALSE, severity_score |-> Zero,
                   metric_name |-> "sentiment",
                   current_value |-> last.current_value,
                   baseline_mean |-> Zero, baseline_std |-> Zero,
                   z_score |-> Zero, timestamp |-> last.timestamp]
    /\ (/\ last.op = "detect_anomalies"
        /\ ~last.raised
        /\ Len(volume_data) < 10) =>
           /\ ~last.result[1].is_anomaly
           /\ last.result[1].severity_score = Zero
           /\ last.result[1].baseline_mean = Zero
           /\ last.result[1].baseline_std = Zero
           /\ last.result[1].z_score = Zero

\* a volume detection of a number on nine buffered values
C4_Witness ==
    /\ last.op = "detect_volume_anomaly"
    /\ Len(volume_data) = 9
    /\ IsNumber(last.current_value)
    /\ ~last.result.is_anomaly
    /\ last.result.baseline_std = Zero

\* C5 as stated: no detection entry point ever raises, malformed arguments
\* included.
C5_DetectionNeverRaises ==
    last.op \in {"detect_volume_anomaly", "detect_sentiment_anomaly",
                 "detect_anomalies"} => ~last.raised

\* C6: a detection flags its value exactly when abs(z_score) is strictly
\* greater than the threshold; at abs(z_score) equal to the threshold the
\* value is not flagged and the severity is 0.
C6_StrictThreshold ==
    /\ last.op \in {"detect_volume_anomaly", "detect_sentiment_anomaly"} =>
           /\ last.result.is_anomaly <=>
                  ~LeqRat(AbsReal(last.result.z_score), z_threshold)
           /\ AbsReal(last.result.z_score) = RealOfRat(z_threshold) =>
                  /\ ~last.result.is_anomaly
                  /\ last.result.severity_score = Zero
    /\ (last.op = "detect_anomalies" /\ ~last.raised) =>
           \A k \in 1..2 :
               /\ last.result[k].is_anomaly <=>
                      ~LeqRat(AbsReal(last.result[k].z_score), z_threshold)
               /\ AbsReal(last.result[k].z_score) = RealOfRat(z_threshold) =>
                      /\ ~last.result[k].is_anomaly
                      /\ last.result[k].severity_score = Zero

\* a volume detection whose z-score has exactly the threshold's magnitude
C6_Witness ==
    /\ last.op = "detect_volume_anomaly"
    /\ Len(volume_data) >= 10
    /\ last.result.baseline_std # Zero
    /\ AbsReal(last.result.z_score) = RealOfRat(z_threshold)
    /\ ~last.result.is_anomaly

\* C10: detect_anomalies inserts the sample first: the tail of each series
\* is the candidate, and both results are the detections computed on the
\* series that contain it.
C10_ScoredAgainstPostInsertionWindow ==
    (last.op = "detect_anomalies" /\ ~last.raised) =>
        /\ timestamp_data[Len(timestamp_data)].x = last.timestamp
        /\ volume_data[Len(volume_data)].x = last.volume.num
        /\ sentiment_data[Len(sentiment_data)].x = last.sentiment_score.num
        /\ last.result[1] =
               DetectVolumeAnomaly(volume_data, last.volume, last.timestamp)
        /\ last.result[2] =
               DetectSentimentAnomaly(sentiment_data, last.sentiment_score,
                                      last.timestamp)
        /\ Len(volume_data) >= 10 =>
               last.result[1].baseline_mean =
                   RealOfRat(Mean(ValuesOf(volume_data)))

\* a computed volume result whose baseline mean differs from the mean of
\* the window without the candidate
C10_Witness ==
    /\ last.op = "detect_anomalies"
    /\ ~last.raised
    /\ Len(volume_data) >= 10
    /\ last.result[1].baseline_std # Zero
    /\ last.result[1].baseline_mean #
           RealOfRat(Mean(ValuesOf(SubSeq(volume_data, 1,
                                          Len(volume_data) - 1))))

---------------------------------------------------------------------------
(* Properties of the severity score *)

\* C7: with a = abs(z) and threshold t the severity is 0 for a <= t,
\* (a - t) / t for t < a <= 2t, and 1 for a > 2t; it lies in [0, 1].
C7_PiecewiseSeverity ==
    last.op = "_calculate_severity_score" =>
        LET a == RAbs(last.z_score.p)
            t == z_threshold
            t2 == RMul(<<2, 1>>, z_threshold)
        IN  /\ RLeq(a, t) => last.result = Zero
            /\ (RLt(t, a) /\ RLeq(a, t2)) =>
                   last.result = RealOfRat(RDiv(RSub(a, t), t))
            /\ RLt(t2, a) => last.result = One
            /\ a = t2 => last.result = One
            /\ RLeq(RZero, last.result.p)
            /\ RLeq(last.result.p, ROne)

\* the severity 1/2 of a z-score halfway up the ramp
C7_Witness ==
    /\ last.op = "_calculate_severity_score"
    /\ RAbs(last.z_score.p) = RMul(<<3, 2>>, z_threshold)
    /\ last.result = RealOfRat(<<1, 2>>)

\* C8: the severity never decreases as abs(z) grows.
C8_SeverityMonotone ==
    last.op = "_calculate_severity_score" =>
        \A z2 \in ZScores :
            RLeq(RAbs(last.z_score.p), RAbs(z2.p)) =>
                RLeq(last.result.p, CalculateSeverityScore(z2).p)

\* a negative z-score on the ramp, with larger magnitudes on the grid
C8_Witness ==
    /\ last.op = "_calculate_severity_score"
    /\ last.z_score.p[1] < 0
    /\ RLt(RZero, last.result.p)
    /\ RLt(last.result.p, ROne)
    /\ \E z2 \in ZScores : RLt(RAbs(last.z_score.p), RAbs(z2.p))

\* C9: the severity of z and of -z are equal, and a value at a distance
\* below the baseline mean gets the verdict and the severity of the value
\* at the same distance above it.
C9_SignSymmetric ==
    /\ last.op = "_calculate_severity_score" =>
           last.result =
               CalculateSeverityScore(
                   RealOfRat(Rat(-last.z_score.p[1], last.z_score.p[2])))
    /\ last.op = "score" =>
           \A v \in ProbeValues :
               RSub(<<v, 1>>, last.mean) = RSub(last.mean, <<last.value, 1>>)
                   => /\ Score(v, last.mean, last.std).is_anomaly
                          = last.result.is_anomaly
                      /\ Score(v, last.mean, last.std).severity
                          = last.result.severity

\* a flagged value below the mean whose mirror image is a probe too
C9_Witness ==
    /\ last.op = "score"
    /\ RLt(<<last.value, 1>>, last.mean)
    /\ last.result.is_anomaly
    /\ IsPositive(last.result.severity)
    /\ \E v \in ProbeValues :
           RSub(<<v, 1>>, last.mean) = RSub(last.mean, <<last.value, 1>>)

---------------------------------------------------------------------------
(* Properties of the calls' effects on the window *)

C12_DetectionsReadOnly ==
    [][last'.op \in {"detect_volume_anomaly", "detect_sentiment_anomaly"} =>
           UNCHANGED <<timestamp_data, volume_data, sentiment_data,
                       window_size_hours, z_threshold>>]_vars

\* a volume detection of a malformed value on a window of at least ten
\* samples: the error is caught and the window is still there
C12_Witness ==
    /\ last.op = "detect_volume_anomaly"
    /\ ~IsNumber(last.current_value)
    /\ Len(volume_data) >= 10
    /\ Len(timestamp_data) = Len(volume_data)
    /\ last.result.baseline_std = Zero

\* C13 as stated: get_window_stats leaves the window unchanged, and the
\* data_points_count it reports is the number of buffered timestamps and,
\* when that is not zero, the count of volume_stats and of sentiment_stats.
C13_StatsCountsAgree ==
    [][last'.op = "get_window_stats" =>
           /\ UNCHANGED <<timestamp_data, volume_data, sentiment_data>>
           /\ last'.result.data_points_count = Len(timestamp_data)
           /\ Len(timestamp_data) > 0 =>
                  /\ last'.result.volume_stats # {}
                  /\ last'.result.sentiment_stats # {}
                  /\ \A st \in last'.result.volume_stats :
                         st.count = last'.result.data_points_count
                  /\ \A st \in last'.result.sentiment_stats :
                         st.count = last'.result.data_points_count]_vars

\* C14: reset leaves the three series empty and changes neither
\* window_size_hours, nor z_threshold, nor the capacity.
C14_ResetClearsWindowOnly ==
    [][last'.op = "reset" =>
           /\ timestamp_data' = <<>>
           /\ volume_data' = <<>>
           /\ sentiment_data' = <<>>
           /\ UNCHANGED <<window_size_hours, z_threshold>>
           /\ Capacity' = Capacity]_vars

\* a reset of a window of at least ten samples
C14_Witness ==
    /\ last.op = "reset"
    /\ last.count_before >= 10
    /\ timestamp_data = <<>>
    /\ volume_data = <<>>
    /\ sentiment_data = <<>>
    /\ window_size_hours = 4
    /\ z_threshold = <<7, 4>>

---------------------------------------------------------------------------
(* Properties of the baseline statistics *)

\* C15: on the computed path of a detection the returned baseline_std is
\* strictly positive and the z-score is finite; a baseline of identical
\* values has baseline_std 1e-10.
C15_BaselineStdPositive ==
    /\ (/\ last.op = "detect_volume_anomaly"
        /\ Len(volume_data) >= 10
        /\ IsNumber(last.current_value)) =>
           /\ IsPositive(last.result.baseline_std)
           /\ last.result.z_score.p[2] > 0
           /\ last.result.z_score.m[2] > 0
           /\ (\A i \in 1..Len(volume_data) :
                   volume_data[i].x = volume_data[1].x) =>
                  last.result.baseline_std = Epsilon
    /\ (/\ last.op = "detect_sentiment_anomaly"
        /\ Len(sentiment_data) >= 10
        /\ IsNumber(last.current_value)) =>
           /\ IsPositive(last.result.baseline_std)
           /\ last.result.z_score.p[2] > 0
           /\ last.result.z_score.m[2] > 0
           /\ (\A i \in 1..Len(sentiment_data) :
                   sentiment_data[i].x = sentiment_data[1].x) =>
                  last.result.baseline_std = Epsilon

\* a volume detection of a value that differs from a baseline of at least
\* ten identical volumes
C15_Witness ==
    /\ last.op = "detect_volume_anomaly"
    /\ Len(volume_data) >= 10
    /\ \A i \in 1..Len(volume_data) : volume_data[i].x = volume_data[1].x
    /\ IsNumber(last.current_value)
    /\ last.current_value.num # volume_data[1].x
    /\ last.result.baseline_std = Epsilon
    /\ last.result.z_score.e = 1
    /\ last.result.is_anomaly

---------------------------------------------------------------------------
(* Properties of concurrent use *)

\* C16 as stated: once every thread's add_data_point call has returned,
\* the window is the one that the calls produce in some serial order, and
\* the three series are co-indexed.
C16_CallsSerialized ==
    (/\ \A i \in Threads : threads[i].pc = "idle"
     /\ ~raisedEver) =>
        /\ \E order \in {f \in [1..Len(ReturnedCalls) ->
                                    1..Len(ReturnedCalls)] :
                             \A a, b \in 1..Len(ReturnedCalls) :
                                 a # b => f[a] # f[b]} :
               LET serial ==
                       SerialRun(<<>>, <<>>, <<>>,
                                 [k \in 1..Len(ReturnedCalls) |->
                                      ReturnedCalls[order[k]]])
               IN  /\ timestamp_data = serial.ts
                   /\ volume_data = serial.vol
                   /\ sentiment_data = serial.sent
        /\ Len(volume_data) = Len(timestamp_data)
        /\ Len(sentiment_data) = Len(timestamp_data)
        /\ \A k \in 1..Len(timestamp_data) :
               /\ volume_data[k].call = timestamp_data[k].call
               /\ sentiment_data[k].call = timestamp_data[k].call

---------------------------------------------------------------------------
(* Properties of replayed calls *)

\* C17: two detectors with the same configuration that have been given the
\* same calls, all with explicit timestamps, hold the same three series
\* and have returned the same result, whatever the wall-clock times of the
\* calls.
C17_ReplayDeterministic ==
    replica.explicit =>
        /\ replica.timestamp_data = timestamp_data
        /\ replica.volume_data = volume_data
        /\ replica.sentiment_data = sentiment_data
        /\ replica.last = last

\* a detect_anomalies call that evicted a sample, after calls that reached
\* the two detectors at different wall-clock times
C17_Witness ==
    /\ replica.explicit
    /\ replica.skewed
    /\ last.op = "detect_anomalies"
    /\ last.count_before >= 1
    /\ Len(timestamp_data) <= last.count_before
    /\ replica.timestamp_data = timestamp_data
    /\ replica.last = last

---------------------------------------------------------------------------
(* The specified append of the sample store, and its agreement with        *)
(* add_data_point                                                          *)

\* evict from the head every entry older than cutoff_time
RECURSIVE EvictStale(_, _, _, _)
EvictStale(ts, vol, sent, cutoff_time) ==
    IF ts # <<>> /\ ts[1].x < cutoff_time
    THEN EvictStale(Tail(ts), Tail(vol), Tail(sent), cutoff_time)
    ELSE [ts |-> ts, vol |-> vol, sent |-> sent]

\* evict further head entries until the size is at or under the cap
RECURSIVE EvictOverCap(_, _, _, _)
EvictOverCap(ts, vol, sent, cap) ==
    IF Len(ts) > cap
    THEN EvictOverCap(Tail(ts), Tail(vol), Tail(sent), cap)
    ELSE [ts |-> ts, vol |-> vol, sent |-> sent]

\* append(sample): insert at the tail, evict the stale head entries, then
\* evict down to the capacity
SpecifiedAppend(ts, vol, sent, volume, sentiment_score, timestamp) ==
    LET fresh == EvictStale(
                     Append(ts, Entry(timestamp, timestamp, volume,
                                      sentiment_score)),
                     Append(vol, Entry(volume.num, timestamp, volume,
                                       sentiment_score)),
                     Append(sent, Entry(sentiment_score.num, timestamp,
                                        volume, sentiment_score)),
                     timestamp - window_size_hours)
    IN  EvictOverCap(fresh.ts, fresh.vol, fresh.sent, window_size_hours * 4)

\* k specified appends of the same sample (the singleton set binds each
\* intermediate store to its value before the next append is applied)
RECURSIVE SpecifiedAppends(_, _, _, _, _, _, _)
SpecifiedAppends(ts, vol, sent, k, volume, sentiment_score, timestamp) ==
    IF k = 0 THEN [ts |-> ts, vol |-> vol, sent |-> sent]
    ELSE CHOOSE r \in
             { SpecifiedAppends(w.ts, w.vol, w.sent, k - 1, volume,
                                sentiment_score, timestamp) :
                 w \in { SpecifiedAppend(ts, vol, sent, volume,
                                         sentiment_score, timestamp) } } :
             TRUE

\* C18: every add_data_point call that returns (and the insertion of every
\* detect_anomalies call) leaves the three series as the specified append
\* of the same sample leaves them: insert at the tail, evict the stale
\* head entries, evict down to the capacity.
C18_AddMatchesSpecifiedAppend ==
    [][(/\ last'.op \in {"add_data_point", "detect_anomalies"}
        /\ ops' = ops + 1
        /\ ~last'.raised) =>
           \A call \in {last'} :
               LET w == SpecifiedAppends(
                            timestamp_data, volume_data, sentiment_data,
                            IF call.op = "add_data_point" THEN call.calls
                            ELSE 1,
                            call.volume, call.sentiment_score,
                            call.timestamp)
               IN  /\ timestamp_data' = w.ts
                   /\ volume_data' = w.vol
                   /\ sentiment_data' = w.sent]_vars

\* a loop of fifteen insertions whose last one found the window full
C18_Witness ==
    /\ last.op = "add_data_point"
    /\ ~last.raised
    /\ last.calls = 15
    /\ last.count_before = window_size_hours * 4
    /\ Len(timestamp_data) = window_size_hours * 4
    /\ timestamp_data[1].call # timestamp_data[Len(timestamp_data)].call

---------------------------------------------------------------------------
(* Properties of construction *)

\* C19 as stated: a new detector has exactly the window_size_hours and the
\* z_threshold passed to its constructor, whatever they are, 24 and 2.5
\* only for an omitted argument, and three empty series.
C19_ConfiguredAsPassed ==
    last.op = "__init__" =>
        /\ window_size_hours =
               (IF last.window_size_hours = NoneArg THEN 24
                ELSE last.window_size_hours.num)
        /\ z_threshold =
               (IF last.z_threshold = NoneArg THEN <<5, 2>>
                ELSE last.z_threshold.num)
        /\ timestamp_data = <<>>
        /\ volume_data = <<>>
        /\ sentiment_data = <<>>

---------------------------------------------------------------------------
(* Properties of the returned list *)

\* C20: a detect_anomalies call that returns gives a list of exactly two
\* results: the volume result of the candidate volume first, the sentiment
\* result of the candidate sentiment second.
C20_VolumeThenSentiment ==
    (last.op = "detect_anomalies" /\ ~last.raised) =>
        /\ Len(last.result) = 2
        /\ last.result[1].metric_name = "volume"
        /\ last.result[1].current_value = last.volume
        /\ last.result[2].metric_name = "sentiment"
        /\ last.result[2].current_value = last.sentiment_score

\* a returned pair whose volume result is flagged on the computed path
\* while its sentiment result is not
C20_Witness ==
    /\ last.op = "detect_anomalies"
    /\ ~last.raised
    /\ Len(last.result) = 2
    /\ last.result[1].metric_name = "volume"
    /\ last.result[1].is_anomaly
    /\ last.result[2].metric_name = "sentiment"
    /\ ~last.result[2].is_anomaly
    /\ last.result[2].baseline_std # Zero

---------------------------------------------------------------------------
(* Properties of detect_spike *)

\* C21: with fewer than 10 baseline values detect_spike returns
\* (False, 0.0) and does not raise, whatever the current value and whatever
\* the baseline holds.
C21_ShortBaselineNoSpike ==
    (last.op = "detect_spike" /\ Len(last.baseline_values) < 10) =>
        last.result = SpikeReturn(FALSE, Zero)

\* a call with nine baseline values, one of them not a number, and a
\* current value that is not a number
C21_Witness ==
    /\ last.op = "detect_spike"
    /\ Len(last.baseline_values) = 9
    /\ \E i \in 1..9 : ~IsNumber(last.baseline_values[i])
    /\ ~IsNumber(last.current_value)
    /\ ~last.result.raised

\* C22 as stated: for a baseline of at least 10 numbers of any length,
\* detect_spike returns the flag and the severity of the current value
\* measured against the mean and the sample standard deviation of all the
\* baseline values.
C22_ScoredAgainstWholeBaseline ==
    (/\ last.op = "detect_spike"
     /\ Len(last.baseline_values) >= 10
     /\ IsNumber(last.current_value)
     /\ \A i \in 1..Len(last.baseline_values) :
            IsNumber(last.baseline_values[i])) =>
        LET all == [i \in 1..Len(last.baseline_values) |->
                        last.baseline_values[i].num]
            stats == CalculateStatistics(all)
            sc == Score(last.current_value.num, stats.mean, stats.std)
        IN  last.result = SpikeReturn(sc.is_anomaly, sc.severity)

---------------------------------------------------------------------------
(* Properties of the HTTP front end *)

\* C23 as stated: a POST /analyze whose text is empty or only whitespace
\* and a POST /analyze-batch whose list of texts is empty are answered with
\* status 400, never with 500.
C23_EmptyInputIs400 ==
    /\ (/\ last.op = "POST /analyze"
        /\ \A i \in 1..Len(last.text) : last.text[i] = " ") =>
           last.response.status_code = 400
    /\ (last.op = "POST /analyze-batch" /\ last.texts = <<>>) =>
           last.response.status_code = 400

---------------------------------------------------------------------------
(* Properties of the batch saves *)

\* C24 as stated: the count a batch save returns is not greater than the
\* number of rows the call persisted, also when the transaction fails with
\* a database error and is rolled back.
C24_CountIsRowsPersisted ==
    [][last'.op \in {"save_news_insights_batch", "save_asset_trends_batch"}
          => last'.returned <=
                 (Len(database'.news_insights) + Len(database'.asset_trends))
                 - (Len(database.news_insights) + Len(database.asset_trends))
      ]_vars

---------------------------------------------------------------------------
(* Properties of analyze_text *)

\* C25: analyze_text returns exactly 0.0 without calling the lexicon scorer
\* for an argument that is None, empty, only blanks or not a string; for
\* any other text it calls the scorer and returns the compound score,
\* except that a compound score of exactly 0.0 gives -0.4 when the
\* lower-cased text holds a negative keyword and otherwise +0.4 when it
\* holds a positive keyword.
C25_GuardAndKeywordBoost ==
    last.op = "analyze_text" =>
        LET text == last.text
            blank == IsStr(text) /\ \A i \in 1..Len(text.text) :
                                        text.text[i] = " "
            words == IF IsStr(text)
                     THEN {LowerPiece(text.text[i]) : i \in 1..Len(text.text)}
                     ELSE {}
            negative == \E w \in words : KeywordsIn(w) \cap NEGATIVE_KEYWORDS # {}
            positive == \E w \in words : KeywordsIn(w) \cap POSITIVE_KEYWORDS # {}
        IN  IF ~IsStr(text) \/ blank
            THEN last.result = Scored(RZero, FALSE)
            ELSE /\ last.result.consulted
                 /\ last.result.returned =
                        (IF last.compound # RZero THEN last.compound
                         ELSE IF negative THEN <<-2, 5>>
                         ELSE IF positive THEN <<2, 5>>
                         ELSE RZero)

\* a text with a positive and a negative keyword and a compound score of
\* 0.0, answered with -0.4
C25_Witness ==
    /\ last.op = "analyze_text"
    /\ IsStr(last.text)
    /\ last.text.text = <<"Moon", "dump">>
    /\ last.compound = RZero
    /\ last.result = Scored(<<-2, 5>>, TRUE)

---------------------------------------------------------------------------
(* Properties of the window under ordered and failing insertions *)

\* C26 as stated: an add_data_point call that raises leaves the three
\* series exactly as they were before the call, and the three series have
\* equal lengths after it and after every later operation.
C26_FailedInsertionLeavesWindow ==
    [][/\ (last'.op = "add_data_point" /\ last'.raised) =>
              UNCHANGED <<timestamp_data, volume_data, sentiment_data>>
       /\ raisedEver' =>
              /\ Len(timestamp_data') = Len(volume_data')
              /\ Len(volume_data') = Len(sentiment_data')]_vars

\* C27: an insertion at a time T that is not earlier than the newest
\* retained timestamp, into a window whose timestamps are in non-decreasing
\* order, leaves the retained timestamps in non-decreasing order and all in
\* [T - window_size_hours, T].  (The new sample is always the tail, so with
\* non-decreasing call timestamps every insertion is such an insertion.)
C27_OrderedCallsKeepWindowOrdered ==
    [][(/\ last'.op \in {"add_data_point", "detect_anomalies"}
        /\ ~last'.raised
        /\ \A i \in 1..(Len(timestamp_data) - 1) :
               timestamp_data[i].x <= timestamp_data[i + 1].x
        /\ \A i \in 1..Len(timestamp_data) :
               timestamp_data[i].x <= last'.timestamp) =>
           /\ \A i \in 1..(Len(timestamp_data') - 1) :
                  timestamp_data'[i].x <= timestamp_data'[i + 1].x
           /\ \A i \in 1..Len(timestamp_data') :
                  /\ timestamp_data'[i].x >=
                         last'.timestamp - window_size_hours
                  /\ timestamp_data'[i].x <= last'.timestamp
           /\ timestamp_data' # <<>>
           /\ timestamp_data'[Len(timestamp_data')].x = last'.timestamp]_vars

\* three insertions at increasing times of which the last evicted the
\* first and kept the second at the edge of the window
C27_Witness ==
    /\ last.op = "add_data_point"
    /\ last.count_before = 2
    /\ Len(timestamp_data) = 2
    /\ timestamp_data[1].x < timestamp_data[2].x
    /\ timestamp_data[1].x = last.timestamp - window_size_hours
    /\ timestamp_data[2].x = last.timestamp

---------------------------------------------------------------------------
(* Properties of eviction *)

\* C28: an insertion into a window that holds exactly window_size_hours * 4
\* samples, none of them older than the cutoff of the insertion, removes
\* the head entry of each of the three series, keeps the other entries in
\* their order and puts the new sample at the tail.
C28_FullWindowDropsOldest ==
    [][(/\ last'.op \in {"add_data_point", "detect_anomalies"}
        /\ ~last'.raised
        /\ Len(timestamp_data) = window_size_hours * 4
        /\ Len(volume_data) = window_size_hours * 4
        /\ Len(sentiment_data) = window_size_hours * 4
        /\ \A i \in 1..Len(timestamp_data) :
               timestamp_data[i].x >=
                   last'.timestamp - window_size_hours) =>
           \A call \in {<<last'.timestamp, last'.volume,
                          last'.sentiment_score>>} :
               /\ timestamp_data' =
                      Append(Tail(timestamp_data),
                             [x |-> call[1], call |-> call])
               /\ volume_data' =
                      Append(Tail(volume_data),
                             [x |-> call[2].num, call |-> call])
               /\ sentiment_data' =
                      Append(Tail(sentiment_data),
                             [x |-> call[3].num, call |-> call])]_vars

\* an insertion at time 0, for which no sample is stale, into a full
\* one-hour window; the window keeps its size and its new head differs
\* from the new tail
C28_Witness ==
    /\ last.op = "add_data_point"
    /\ ~last.raised
    /\ last.timestamp = 0
    /\ last.count_before = window_size_hours * 4
    /\ Len(timestamp_data) = window_size_hours * 4
    /\ Len(volume_data) = window_size_hours * 4
    /\ timestamp_data[1].x > 0

\* C29 as stated: after an insertion at time T a head sample whose
\* timestamp is exactly T - window_size_hours is retained, and a head
\* sample whose timestamp is earlier is evicted.
C29_BoundaryHeadRetained ==
    [][(/\ last'.op \in {"add_data_point", "detect_anomalies"}
        /\ ~last'.raised
        /\ timestamp_data # <<>>) =>
           /\ timestamp_data[1].x = last'.timestamp - window_size_hours =>
                  timestamp_data'[1] = timestamp_data[1]
           /\ timestamp_data[1].x < last'.timestamp - window_size_hours =>
                  /\ Len(timestamp_data') <= Len(timestamp_data)
                  /\ timestamp_data'[1].x >=
                         last'.timestamp - window_size_hours]_vars

\* C29: after an insertion at time T a head sample whose timestamp is
\* exactly T - window_size_hours is retained, together with everything
\* behind it, when the window held fewer than window_size_hours * 4
\* samples; a head sample whose timestamp is earlier is evicted, whatever
\* the size.
C29_BoundaryHeadRetainedBelowCapacity ==
    [][(/\ last'.op \in {"add_data_point", "detect_anomalies"}
        /\ ~last'.raised
        /\ timestamp_data # <<>>) =>
           /\ (/\ timestamp_data[1].x = last'.timestamp - window_size_hours
               /\ Len(timestamp_data) < window_size_hours * 4) =>
                  /\ Len(timestamp_data') = Len(timestamp_data) + 1
                  /\ \A i \in 1..Len(timestamp_data) :
                         timestamp_data'[i] = timestamp_data[i]
           /\ timestamp_data[1].x < last'.timestamp - window_size_hours =>
                  /\ Len(timestamp_data') <= Len(timestamp_data)
                  /\ timestamp_data'[1].x >=
                         last'.timestamp - window_size_hours]_vars

\* an insertion that found a head exactly at the cutoff and kept it
C29_Witness ==
    /\ last.op = "add_data_point"
    /\ ~last.raised
    /\ last.count_before >= 1
    /\ Len(timestamp_data) = last.count_before + 1
    /\ timestamp_data[1].x = last.timestamp - window_size_hours


---------------------------------------------------------------------------
(* Properties of the returned flag and severity *)

\* C30: in every AnomalyResult a detection returns, on the insufficient-data
\* path, the computed path and the caught-error path alike, is_anomaly is
\* true if and only if severity_score is greater than 0.0.
C30_AnomalyIffPositiveSeverity ==
    LET results ==
            IF last.op \in {"detect_volume_anomaly",
                            "detect_sentiment_anomaly"}
            THEN {last.result}
            ELSE IF last.op = "detect_anomalies" /\ ~last.raised
            THEN {last.result[i] : i \in 1..Len(last.result)}
            ELSE {}
    IN  \A r \in results : r.is_anomaly <=> IsPositive(r.severity_score)


---------------------------------------------------------------------------
(* Properties of consecutive detect_anomalies calls *)

\* C31: starting from an empty detector, with no eviction, the k-th
\* consecutive detect_anomalies call returns the zeroed insufficient-data
\* result for both metrics when k is 1 to 9 and a computed baseline, with
\* baseline_std greater than 0, for both metrics when k is 10 or more: the
\* candidate is counted in the window it is scored against.
C31_ComputedFromTenthCall ==
    (last.op = "detect_anomalies" /\ ~last.raised) =>
        /\ Len(last.result) = 2
        /\ ops < 10 =>
               /\ last.result[1] =
                      [is_anomaly |-> FALSE, severity_score |-> Zero,
                       metric_name |-> "volume",
                       current_value |-> last.volume,
                       baseline_mean |-> Zero, baseline_std |-> Zero,
                       z_score |-> Zero, timestamp |-> last.timestamp]
               /\ last.result[2] =
                      [is_anomaly |-> FALSE, severity_score |-> Zero,
                       metric_name |-> "sentiment",
                       current_value |-> last.sentiment_score,
                       baseline_mean |-> Zero, baseline_std |-> Zero,
                       z_score |-> Zero, timestamp |-> last.timestamp]
        /\ ops >= 10 =>
               /\ IsPositive(last.result[1].baseline_std)
               /\ IsPositive(last.result[2].baseline_std)

\* the tenth call of a run, scored against ten volumes that are not all
\* equal
C31_Witness ==
    /\ last.op = "detect_anomalies"
    /\ ~last.raised
    /\ ops = 10
    /\ last.count_before = 9
    /\ Len(volume_data) = 10
    /\ last.result[1].baseline_std \notin {Zero, Epsilon}
    /\ last.result[2].baseline_std = Epsilon


---------------------------------------------------------------------------
(* Properties of the timestamp of a detection *)

\* C32: detect_volume_anomaly and detect_sentiment_anomaly evict nothing,
\* and their timestamp argument appears only in the returned record: for
\* the same probe value and window every timestamp gives the same verdict,
\* also one more than window_size_hours after the newest buffered sample.
C32_VerdictIgnoresTimestamp ==
    [][/\ last'.op = "detect_volume_anomaly" =>
              /\ UNCHANGED <<timestamp_data, volume_data, sentiment_data>>
              /\ \A t \in Times :
                     last'.result =
                         [DetectVolumeAnomaly(volume_data,
                                              last'.current_value, t)
                              EXCEPT !.timestamp = last'.timestamp]
       /\ last'.op = "detect_sentiment_anomaly" =>
              /\ UNCHANGED <<timestamp_data, volume_data, sentiment_data>>
              /\ \A t \in Times :
                     last'.result =
                         [DetectSentimentAnomaly(sentiment_data,
                                                 last'.current_value, t)
                              EXCEPT !.timestamp = last'.timestamp]]_vars

\* a volume flagged by a detection whose timestamp is more than
\* window_size_hours after every buffered sample
C32_Witness ==
    /\ last.op = "detect_volume_anomaly"
    /\ Len(timestamp_data) >= 10
    /\ \A i \in 1..Len(timestamp_data) :
           last.timestamp - timestamp_data[i].x > window_size_hours
    /\ last.result.is_anomaly
    /\ last.result.timestamp = last.timestamp


---------------------------------------------------------------------------
(* Properties of a detector after reset *)

\* C33: after reset() a detector cannot be told from a freshly constructed
\* detector with the same configuration: after every sequence of calls
\* given to both, the two hold the same window, and the latest call
\* returned (or raised) the same on both.
C33_ResetLikeFresh ==
    /\ last.op = "reset" =>
           /\ timestamp_data = replica.timestamp_data
           /\ volume_data = replica.volume_data
           /\ sentiment_data = replica.sentiment_data
    /\ replica.last.op # "__init__" =>
           /\ timestamp_data = replica.timestamp_data
           /\ volume_data = replica.volume_data
           /\ sentiment_data = replica.sentiment_data
           /\ last = replica.last

\* a window that was reset when it was full and has since been filled
\* again, by calls given to both detectors, until its oldest sample was
\* dropped
C33_Witness ==
    /\ replica.last.op = "add_data_point"
    /\ ~last.raised
    /\ last.count_before = Capacity
    /\ Len(timestamp_data) = Capacity
    /\ ops > Capacity + 1
    /\ replica.timestamp_data = timestamp_data
    /\ replica.last = last


---------------------------------------------------------------------------
(* Properties of a reader that runs beside an insertion *)

\* C34: a get_window_stats call that runs while another thread is inside
\* add_data_point never observes a half-applied insertion: the three series
\* it reads have the same length, so data_points_count equals the volume
\* count and the sentiment count.
C34_ReadersSeeWholeInsertions ==
    last.op = "get_window_stats" =>
        /\ \A s \in last.result.volume_stats :
               s.count = last.result.data_points_count
        /\ \A s \in last.result.sentiment_stats :
               s.count = last.result.data_points_count
        /\ last.result.data_points_count > 0 =>
               /\ last.result.volume_stats # {}
               /\ last.result.sentiment_stats # {}


---------------------------------------------------------------------------
(* Properties of the scheduled pipeline *)

\* C35: every run of MarketAnalyzer.run hands the same constant volume to
\* the detector, so across any number of runs the volume result is never
\* flagged: its z-score is 0, against a baseline of equal values.  Only
\* the sentiment result can be flagged.
C35_VolumeNeverFlagged ==
    /\ \A i \in 1..Len(volume_data) : volume_data[i].x = 1000
    /\ last.op = "run" =>
           \A i \in 1..Len(last.anomalies) :
               last.anomalies[i].metric_name = "volume" =>
                   /\ ~last.anomalies[i].is_anomaly
                   /\ last.anomalies[i].z_score = Zero
                   /\ last.anomalies[i].severity_score = Zero
                   /\ last.anomalies[i].baseline_std \in {Zero, Epsilon}

\* a run that scores the volume against ten or more buffered volumes and
\* flags the sentiment
C35_Witness ==
    /\ last.op = "run"
    /\ Len(last.anomalies) = 2
    /\ Len(volume_data) >= 10
    /\ last.anomalies[1].metric_name = "volume"
    /\ last.anomalies[1].baseline_std = Epsilon
    /\ ~last.anomalies[1].is_anomaly
    /\ last.anomalies[2].metric_name = "sentiment"
    /\ last.anomalies[2].is_anomaly


---------------------------------------------------------------------------
(* Properties of get_session *)

\* C36: in every use of get_session the session is committed exactly when
\* the body finishes without an exception; when the body or the commit
\* raises, the transaction is rolled back and the exception leaves the
\* with statement; the session is closed in every case, as the last call
\* made on it; and no session is both successfully committed and rolled
\* back.
C36_CommitOrRollbackThenClose ==
    last.op = "save_news_insight" =>
        LET calls == last.session.calls
            called(c) == \E i \in 1..Len(calls) : calls[i] = c
        IN  /\ called("commit") <=> last.body = "returns"
            /\ last.session.raised <=>
                   (last.body # "returns" \/ last.fault = "commit")
            /\ last.session.raised =>
                   last.session.transaction = "rolled back"
            /\ (last.session.raised /\ last.body # "KeyboardInterrupt") =>
                   called("rollback")
            /\ ~last.session.raised =>
                   /\ last.session.transaction = "committed"
                   /\ ~called("rollback")
            /\ last.session.closed
            /\ calls # <<>>
            /\ calls[Len(calls)] = "close"
            /\ \A i \in 1..(Len(calls) - 1) : calls[i] # "close"

\* a use whose body returned and whose commit raised: commit, rollback and
\* close were called, nothing was stored and None was returned
C36_Witness ==
    /\ last.op = "save_news_insight"
    /\ last.body = "returns"
    /\ last.fault = "commit"
    /\ last.session.calls = <<"commit", "rollback", "close">>
    /\ last.session.transaction = "rolled back"
    /\ last.returned = NoneArg
    /\ ~last.raised


---------------------------------------------------------------------------
(* Termination of add_data_point *)

===========================================================================
